---- MODULE Spec2Model ----
(***************************************************************************)
(* Model of the agent orchestration core of the product-development chat   *)
(* backend: AgentOrchestrator.process_message (routing, delegation,        *)
(* artifact detection, communication recording, usage merge), the five     *)
(* responders' post-processing, and the chat endpoint that drives a turn.  *)
(*                                                                         *)
(* Text is modelled by TLA+ strings.  A character outside ASCII is written *)
(* as a token: {U<n>} an upper-case letter whose lower-case form has code  *)
(* point n, {u<n>} a lower-case letter with code point n, {#<n>} a         *)
(* character without case.  Mapping the ASCII letters of a string then     *)
(* also maps the case of its tokens, as str.lower() and str.upper() do.    *)
(***************************************************************************)
EXTENDS Integers, Sequences, FiniteSets, TLC

None == "None"

\* the value of an optional record (a result, a usage, an artifact) that is not there
Absent == [absent |-> TRUE]

(***************************************************************************)
(* Python text primitives                                                  *)
(***************************************************************************)
UpperLetters == "ABCDEFGHIJKLMNOPQRSTUVWXYZ"

LowerLetters == "abcdefghijklmnopqrstuvwxyz"

CharAt(s, i) == SubSeq(s, i, i)

MapChar(c, from, to) ==
    IF \E i \in 1..Len(from) : CharAt(from, i) = c
    THEN CharAt(to, CHOOSE i \in 1..Len(from) : CharAt(from, i) = c)
    ELSE c

RECURSIVE MapFrom(_, _, _, _)
MapFrom(s, i, from, to) ==
    IF i > Len(s) THEN ""
    ELSE IF i = Len(s) THEN MapChar(CharAt(s, i), from, to)
    ELSE LET mid == (i + Len(s)) \div 2
         IN MapFrom(SubSeq(s, 1, mid), i, from, to) \o MapFrom(s, mid + 1, from, to)

\* str.lower()
Lower(s) == MapFrom(s, 1, UpperLetters, LowerLetters)

\* str.upper()
Upper(s) == MapFrom(s, 1, LowerLetters, UpperLetters)

\* marker in text
Contains(text, marker) ==
    /\ Len(marker) <= Len(text)
    /\ \E i \in 1..(Len(text) - Len(marker) + 1) :
          SubSeq(text, i, i + Len(marker) - 1) = marker

\* any(marker in text for marker in markers)
AnyIn(markers, text) == \E k \in 1..Len(markers) : Contains(text, markers[k])

\* Python truthiness of an optional string
Truthy(x) == x # None /\ x # ""

(***************************************************************************)
(* Responder registry                                                      *)
(***************************************************************************)
\* self.agents, in insertion order
AgentOrder ==
    << "project_manager_agent", "business_agent", "discovery_agent",
       "delivery_agent", "tech_lead_agent" >>

AgentIds == {AgentOrder[i] : i \in 1..Len(AgentOrder)}

default_agent == "project_manager_agent"

\* self.agent_names (display names used in the combined text)
agent_names ==
    [ project_manager_agent |-> "Project Manager",
      business_agent        |-> "Business Agent (CPO)",
      discovery_agent       |-> "Discovery Expert",
      delivery_agent        |-> "Delivery Expert",
      tech_lead_agent       |-> "Tech Lead" ]

\* self.agent_names.get(agent, agent)
DisplayName(agent) == IF agent \in AgentIds THEN agent_names[agent] ELSE agent

\* BaseAgent.name of each registered responder
AgentSelfName ==
    [ project_manager_agent |-> "Project Manager",
      business_agent        |-> "Business Agent",
      discovery_agent       |-> "Product Discovery Expert",
      delivery_agent        |-> "Product Delivery Expert",
      tech_lead_agent       |-> "Tech Lead" ]

\* self.agents.get(agent_name, self.agents[self.default_agent])
ResolveAgent(agent_name) ==
    IF agent_name \in AgentIds THEN agent_name ELSE default_agent

\* a lookup that falls back to the default responder, as the primary's lookup does
LookupDelegateWithDefault(delegate_to) == delegate_to \in AgentIds \cup {"marketing_agent"}

\* self.agents.get(delegate_to): whether a responder is registered under the id
LookupDelegate(delegate_to) == delegate_to \in AgentIds

(***************************************************************************)
(* Router                                                                  *)
(***************************************************************************)
agent_keywords ==
    [
    project_manager_agent |-> <<"project manager",
          "pm",
          "{U287}{#188}{U287}{u181}{U287}{#189}{U287}{u181}{U287}{#180}{U287}{#182}{U287}{u181}{U241}{#8364} {U287}{#191}{U241}{#8364}{U287}{#190}{U287}{u181}{U287}{#186}{U241}{#8218}{U287}{#176}",
          "{U287}{#186}{U287}{#190}{U287}{#190}{U241}{#8364}{U287}{#180}{U287}{#184}{U287}{#189}{U287}{#176}{U241}{#8218}{U287}{#190}{U241}{#8364}",
          "{U241}{U241}{#8218}{U287}{#176}{U241}{#8218}{U241}{u402}{U241}",
          "{U287}{#191}{U241}{#8364}{U287}{#190}{U287}{#179}{U241}{#8364}{U287}{u181}{U241}{U241}">>,
    business_agent |-> <<"business agent",
          "cpo",
          "cro",
          "{U287}{#177}{U287}{#184}{U287}{#183}{U287}{#189}{U287}{u181}{U241} {U287}{#176}{U287}{#179}{U287}{u181}{U287}{#189}{U241}{#8218}",
          "{U287}{#177}{U287}{#184}{U287}{#183}{U287}{#189}{U287}{u181}{U241}-{U287}{#176}{U287}{#179}{U287}{u181}{U287}{#189}{U241}{#8218}",
          "unit economics",
          "{U241}{U287}{#189}{U287}{#184}{U241}{#8218} {U241}{U287}{#186}{U287}{#190}{U287}{#189}{U287}{#190}{U287}{#188}{U287}{#184}{U287}{#186}{U287}{#176}">>,
    discovery_agent |-> <<"discovery",
          "validate",
          "market research",
          "{U287}{#180}{U287}{#184}{U241}{U287}{#186}{U287}{#176}{U287}{#178}{U287}{u181}{U241}{#8364}{U287}{#184}",
          "{U287}{#178}{U287}{#176}{U287}{#187}{U287}{#184}{U287}{#180}{U287}{#176}{U241}{#8224}{U287}{#184}{U241}",
          "{U287}{#184}{U241}{U241}{U287}{#187}{U287}{u181}{U287}{#180}{U287}{#190}{U287}{#178}{U287}{#176}{U287}{#189}{U287}{#184}{U287}{u181} {U241}{#8364}{U241}{#8249}{U287}{#189}{U287}{#186}{U287}{#176}",
          "research",
          "{U241}{#8364}{U287}{u181}{U241}{U287}{u181}{U241}{#8364}{U241}{#8225}",
          "{U287}{#186}{U287}{#190}{U287}{#189}{U287}{#186}{U241}{u402}{U241}{#8364}{U287}{u181}{U287}{#189}{U241}{#8218}{U241}{#8249}",
          "competitors">>,
    delivery_agent |-> <<"delivery",
          "requirements",
          "user stories",
          "{U241}{#8218}{U241}{#8364}{U287}{u181}{U287}{#177}{U287}{#190}{U287}{#178}{U287}{#176}{U287}{#189}{U287}{#184}{U241}",
          "{U241}{U287}{#183}{U287}{u181}{U241}{#8364} {U241}{U241}{#8218}{U287}{#190}{U241}{#8364}{U287}{#184}",
          "user story",
          "prd",
          "specs">>,
    tech_lead_agent |-> <<"tech lead",
          "technical",
          "architecture",
          "stack",
          "{U241}{#8218}{U287}{u181}{U241}{#8230}{U287}{#187}{U287}{#184}{U287}{#180}",
          "{U287}{#176}{U241}{#8364}{U241}{#8230}{U287}{#184}{U241}{#8218}{U287}{u181}{U287}{#186}{U241}{#8218}{U241}{u402}{U241}{#8364}{U287}{#176}",
          "{U241}{U241}{#8218}{U287}{u181}{U287}{#186}",
          "{U241}{#8218}{U287}{u181}{U241}{#8230}{U287}{#189}{U287}{#184}{U241}{#8225}{U287}{u181}{U241}{U287}{#186}{U287}{#184}{U287}{#185}">> ]

\* a scan in which the last matching responder of the order wins
ScanKeywordsLast(message_lower, i, current_agent) ==
    LET hits == {k \in i..Len(AgentOrder) :
                    AnyIn(agent_keywords[AgentOrder[k]], message_lower)}
    IN IF hits = {} THEN current_agent
       ELSE AgentOrder[CHOOSE k \in hits : \A h \in hits : k >= h]

RECURSIVE ScanKeywords(_, _, _)
ScanKeywords(message_lower, i, current_agent) ==
    IF i > Len(AgentOrder) THEN current_agent
    ELSE IF AnyIn(agent_keywords[AgentOrder[i]], message_lower)
         THEN AgentOrder[i]
         ELSE ScanKeywords(message_lower, i + 1, current_agent)

DetectAgentRequest(message, current_agent) ==
    ScanKeywords(Lower(message), 1, current_agent)

\* agent_name = current_agent or self.default_agent, then the keyword scan
RouteAgent(message, current_agent) ==
    DetectAgentRequest(message,
        IF Truthy(current_agent) THEN current_agent ELSE default_agent)

(***************************************************************************)
(* Responders: post-processing of the generated text                       *)
(***************************************************************************)
PMDelegationOrder ==
    << "discovery_agent", "delivery_agent", "tech_lead_agent", "business_agent" >>

PMDelegationMarkers ==
    [
    discovery_agent |-> <<"DELEGATE TO DISCOVERY",
          "{#8594} DISCOVERY">>,
    delivery_agent |-> <<"DELEGATE TO DELIVERY",
          "{#8594} DELIVERY">>,
    tech_lead_agent |-> <<"DELEGATE TO TECH LEAD",
          "{#8594} TECH LEAD">>,
    business_agent |-> <<"DELEGATE TO BUSINESS",
          "DELEGATE TO CPO",
          "{#8594} CPO">> ]

PMEscalationMarkers ==
    <<"ESCALATE TO CEO", "Questions for CEO", "CEO DECISION", "YOUR DECISION", "{#128681}">>

\* a scan in which the last candidate with a marker in the text wins
RECURSIVE ScanDelegationLast(_, _, _, _)
ScanDelegationLast(text, order, markers, i) ==
    IF i > Len(order) THEN None
    ELSE LET later == ScanDelegationLast(text, order, markers, i + 1)
         IN IF later # None THEN later
            ELSE IF AnyIn(markers[order[i]], text) THEN order[i] ELSE None

RECURSIVE ScanDelegation(_, _, _, _)
ScanDelegation(text, order, markers, i) ==
    IF i > Len(order) THEN None
    ELSE IF AnyIn(markers[order[i]], text) THEN order[i]
         ELSE ScanDelegation(text, order, markers, i + 1)

PMCheckDelegation(response) ==
    ScanDelegation(Upper(response), PMDelegationOrder, PMDelegationMarkers, 1)

PMCheckEscalation(response) == AnyIn(PMEscalationMarkers, response)

BusinessDelegationOrder ==
    << "discovery_agent", "delivery_agent", "tech_lead_agent" >>

BusinessDelegationMarkers ==
    [
    discovery_agent |-> <<"delegate to discovery",
          "agent 1",
          "discovery expert",
          "market validation",
          "validate the idea">>,
    delivery_agent |-> <<"delegate to delivery",
          "agent 2",
          "delivery agent",
          "requirements",
          "user stories">>,
    tech_lead_agent |-> <<"delegate to tech",
          "agent 3",
          "tech lead",
          "technical decision",
          "architecture">> ]

BusinessEscalationMarkers ==
    <<"{#129300} **CEO DECISION NEEDED**",
     "CEO DECISION NEEDED",
     "YOUR DECISION",
     "{#10067} **Your decision?**",
     "Your decision?">>

BusinessCheckDelegation(response) ==
    ScanDelegation(Lower(response), BusinessDelegationOrder,
                   BusinessDelegationMarkers, 1)

BusinessCheckEscalation(response) == AnyIn(BusinessEscalationMarkers, response)

\* a tally whose total repeats the output count
LlmUsageTotalIsOutput(input_tokens, output_tokens) ==
    [ input_tokens  |-> input_tokens,
      output_tokens |-> output_tokens,
      total_tokens  |-> output_tokens ]

\* _invoke_llm: the usage tally returned with the generated text
LlmUsage(input_tokens, output_tokens) ==
    [ input_tokens  |-> input_tokens,
      output_tokens |-> output_tokens,
      total_tokens  |-> input_tokens + output_tokens ]

\* <Responder>.process: the Outcome built from the generated text and usage
AgentProcess(agent, response_text, usage) ==
    [ agent            |-> agent,
      agent_name       |-> AgentSelfName[agent],
      response         |-> response_text,
      needs_escalation |->
          CASE agent = "project_manager_agent" -> PMCheckEscalation(response_text)
            [] agent = "business_agent" -> BusinessCheckEscalation(response_text)
            [] OTHER -> FALSE,
      delegate_to      |->
          CASE agent = "project_manager_agent" -> PMCheckDelegation(response_text)
            [] agent = "business_agent" -> BusinessCheckDelegation(response_text)
            [] OTHER -> None,
      delegated_response |-> None,
      usage            |-> usage ]

(***************************************************************************)
(* Orchestrator helpers                                                    *)
(***************************************************************************)
\* context.get("name", <default>) in _create_delegation_message
DefaultProjectName == "{U287}{#191}{U241}{#8364}{U287}{#190}{U287}{u181}{U287}{#186}{U241}{#8218}"

DelegationProjectName(name) == IF name = None THEN DefaultProjectName ELSE name

CreateDelegationMessage(from_agent, to_agent, name) ==
    CASE to_agent = "discovery_agent" ->
           "{U287}{U255}{U287}{u181}{U241}{#8364}{U287}{u181}{U287}{#180}{U287}{#176}{U241} {U287}{#183}{U287}{#176}{U287}{#180}{U287}{#176}{U241}{#8225}{U241}{u402} {U287}{#189}{U287}{#176} {U287}{#178}{U287}{#176}{U287}{#187}{U287}{#184}{U287}{#180}{U287}{#176}{U241}{#8224}{U287}{#184}{U241} {U241}{#8364}{U241}{#8249}{U287}{#189}{U287}{#186}{U287}{#176} {U287}{#180}{U287}{#187}{U241} {U287}{#191}{U241}{#8364}{U287}{#190}{U287}{u181}{U287}{#186}{U241}{#8218}{U287}{#176} '"
           \o DelegationProjectName(name) \o
           "'. {U287}{U241}{u402}{U287}{#182}{U287}{#189}{U287}{#190} {U287}{#191}{U241}{#8364}{U287}{#190}{U287}{#176}{U287}{#189}{U287}{#176}{U287}{#187}{U287}{#184}{U287}{#183}{U287}{#184}{U241}{#8364}{U287}{#190}{U287}{#178}{U287}{#176}{U241}{#8218}{U241}{U339} {U241}{#8224}{U287}{u181}{U287}{#187}{U287}{u181}{U287}{#178}{U241}{u402}{U241} {U287}{#176}{U241}{u402}{U287}{#180}{U287}{#184}{U241}{#8218}{U287}{#190}{U241}{#8364}{U287}{#184}{U241} {U287}{#184} {U241}{#8364}{U241}{#8249}{U287}{#189}{U287}{#190}{U241}{#8225}{U287}{#189}{U241}{#8249}{U287}{u181} {U287}{#178}{U287}{#190}{U287}{#183}{U287}{#188}{U287}{#190}{U287}{#182}{U287}{#189}{U287}{#190}{U241}{U241}{#8218}{U287}{#184}."
      [] to_agent = "delivery_agent" ->
           "{U287}{U255}{U287}{u181}{U241}{#8364}{U287}{u181}{U287}{#180}{U287}{#176}{U241} {U287}{#183}{U287}{#176}{U287}{#180}{U287}{#176}{U241}{#8225}{U241}{u402} {U287}{#189}{U287}{#176} {U287}{#191}{U241}{#8364}{U287}{#190}{U241}{#8364}{U287}{#176}{U287}{#177}{U287}{#190}{U241}{#8218}{U287}{#186}{U241}{u402} {U241}{#8218}{U241}{#8364}{U287}{u181}{U287}{#177}{U287}{#190}{U287}{#178}{U287}{#176}{U287}{#189}{U287}{#184}{U287}{#185} {U287}{#180}{U287}{#187}{U241} {U287}{#191}{U241}{#8364}{U287}{#190}{U287}{u181}{U287}{#186}{U241}{#8218}{U287}{#176} '"
           \o DelegationProjectName(name) \o
           "'. {U287}{U241}{u402}{U287}{#182}{U287}{#189}{U287}{#190} {U241}{U241}{#8222}{U287}{#190}{U241}{#8364}{U287}{#188}{U287}{#184}{U241}{#8364}{U287}{#190}{U287}{#178}{U287}{#176}{U241}{#8218}{U241}{U339} user stories {U287}{#184} {U287}{#190}{U287}{#191}{U241}{#8364}{U287}{u181}{U287}{#180}{U287}{u181}{U287}{#187}{U287}{#184}{U241}{#8218}{U241}{U339} MVP scope."
      [] to_agent = "tech_lead_agent" ->
           "{U287}{U255}{U287}{u181}{U241}{#8364}{U287}{u181}{U287}{#180}{U287}{#176}{U241} {U287}{#183}{U287}{#176}{U287}{#180}{U287}{#176}{U241}{#8225}{U241}{u402} {U287}{#189}{U287}{#176} {U241}{#8218}{U287}{u181}{U241}{#8230}{U287}{#189}{U287}{#184}{U241}{#8225}{U287}{u181}{U241}{U287}{#186}{U241}{u402}{U241} {U287}{#191}{U241}{#8364}{U287}{#190}{U241}{#8364}{U287}{#176}{U287}{#177}{U287}{#190}{U241}{#8218}{U287}{#186}{U241}{u402} {U287}{#180}{U287}{#187}{U241} {U287}{#191}{U241}{#8364}{U287}{#190}{U287}{u181}{U287}{#186}{U241}{#8218}{U287}{#176} '"
           \o DelegationProjectName(name) \o
           "'. {U287}{U241}{u402}{U287}{#182}{U287}{#189}{U287}{#190} {U287}{#190}{U287}{#191}{U241}{#8364}{U287}{u181}{U287}{#180}{U287}{u181}{U287}{#187}{U287}{#184}{U241}{#8218}{U241}{U339} {U241}{U241}{#8218}{U287}{u181}{U287}{#186} {U287}{#184} {U287}{#176}{U241}{#8364}{U241}{#8230}{U287}{#184}{U241}{#8218}{U287}{u181}{U287}{#186}{U241}{#8218}{U241}{u402}{U241}{#8364}{U241}{u402}."
      [] OTHER ->
           "{U287}{U255}{U287}{u181}{U241}{#8364}{U287}{u181}{U287}{#180}{U287}{#176}{U241} {U287}{#183}{U287}{#176}{U287}{#180}{U287}{#176}{U241}{#8225}{U241}{u402} {U287}{#180}{U287}{#187}{U241} {U287}{#180}{U287}{#176}{U287}{#187}{U241}{U339}{U287}{#189}{U287}{u181}{U287}{#185}{U241}{#710}{U287}{u181}{U287}{#185} {U287}{#191}{U241}{#8364}{U287}{#190}{U241}{#8364}{U287}{#176}{U287}{#177}{U287}{#190}{U241}{#8218}{U287}{#186}{U287}{#184}."

SummaryLimit == 500

\* a summary that hands the whole text on
SummarizeKeepsAll(response) == response

SummarizeForCommunication(response) ==
    IF Len(response) > SummaryLimit
    THEN SubSeq(response, 1, SummaryLimit) \o "..."
    ELSE response

CombineResponses(original, delegated, delegate_to) ==
    original \o "{#10}{#10}---{#10}{#10}**" \o DisplayName(delegate_to)
             \o ":**{#10}{#10}" \o delegated

ArtifactAgents ==
    {"discovery_agent", "delivery_agent", "tech_lead_agent", "business_agent"}

ArtifactMarkers ==
    [ discovery_agent |-> <<"{u287}{U255}{#8220}{U353} **DISCOVERY SUMMARY**", "GO/NO-GO", "TAM:", "SAM:">>,
      delivery_agent  |-> <<"{u287}{U255}{#8220}{#8249} **REQUIREMENTS SUMMARY**", "MVP Scope", "User Stories", "P0 (Must-have)">>,
      tech_lead_agent |-> <<"{u287}{U255}{#8221}{#167} **TECHNICAL RECOMMENDATION**", "Recommended Stack", "Architecture">>,
      business_agent  |-> <<"{u287}{U255}{#8220}{#710} **UNIT ECONOMICS**", "LTV/CAC", "{u287}{U255}{#8217}{#176} **MVP SCOPE**">> ]

ArtifactType ==
    [ discovery_agent |-> "market_analysis",
      delivery_agent  |-> "prd",
      tech_lead_agent |-> "tech_spec",
      business_agent  |-> "mvp_scope" ]

ArtifactTitlePrefix ==
    [ discovery_agent |-> "Market Analysis: ",
      delivery_agent  |-> "PRD: ",
      tech_lead_agent |-> "Tech Spec: ",
      business_agent  |-> "MVP Scope: " ]

\* context.get('name', 'Project') in _extract_artifact
ArtifactProjectName(name) == IF name = None THEN "Project" ELSE name

\* the keys of ARTIFACT_TYPES
ArtifactTypes ==
    { "market_analysis", "prd", "user_stories", "tech_spec", "architecture",
      "mvp_scope", "unit_economics" }

\* a detector that ignores the case of the text and of the markers
ExtractArtifactAnyCase(response, agent, name) ==
    IF agent \notin ArtifactAgents THEN Absent
    ELSE IF \E k \in 1..Len(ArtifactMarkers[agent]) :
               Contains(Lower(response), Lower(ArtifactMarkers[agent][k]))
         THEN [ type    |-> ArtifactType[agent],
                title   |-> ArtifactTitlePrefix[agent] \o ArtifactProjectName(name),
                content |-> response ]
         ELSE Absent

\* _extract_artifact: None, or the artifact record
ExtractArtifact(response, agent, name) ==
    IF agent \notin ArtifactAgents THEN Absent
    ELSE IF AnyIn(ArtifactMarkers[agent], response)
         THEN [ type    |-> ArtifactType[agent],
                title   |-> ArtifactTitlePrefix[agent] \o ArtifactProjectName(name),
                content |-> response ]
         ELSE Absent

ArtifactCreatedPrefix ==
    "{U287}{#161}{U287}{#190}{U287}{#183}{U287}{#180}{U287}{#176}{U287}{#189} {U287}{#176}{U241}{#8364}{U241}{#8218}{U287}{u181}{U241}{#8222}{U287}{#176}{U287}{#186}{U241}{#8218}: "

\* result.get("usage") / delegated_result.get("usage") as a condition
UsagePresent(usage) == usage # Absent

\* a merge that keeps the delegate's usage and drops the primary's
MergeUsageOverwrite(primary, delegated) ==
    IF UsagePresent(primary) /\ UsagePresent(delegated) THEN delegated ELSE primary

\* the usage merge of process_message
MergeUsage(primary, delegated) ==
    IF UsagePresent(primary) /\ UsagePresent(delegated)
    THEN [ input_tokens  |-> primary.input_tokens + delegated.input_tokens,
           output_tokens |-> primary.output_tokens + delegated.output_tokens,
           total_tokens  |-> primary.total_tokens + delegated.total_tokens ]
    ELSE primary

\* delegation_comm
DelegationComm(from_agent, to_agent, name) ==
    [ from_agent   |-> from_agent,
      to_agent     |-> to_agent,
      message_type |-> "delegation",
      content      |-> CreateDelegationMessage(from_agent, to_agent, name),
      artifact_id  |-> None ]

\* a response communication addressed the wrong way round
ResponseCommReversed(delegate_to, agent, delegated_response) ==
    [ from_agent   |-> agent,
      to_agent     |-> delegate_to,
      message_type |-> "response",
      content      |-> SummarizeForCommunication(delegated_response),
      artifact_id  |-> None ]

\* response_comm
ResponseComm(delegate_to, agent, delegated_response) ==
    [ from_agent   |-> delegate_to,
      to_agent     |-> agent,
      message_type |-> "response",
      content      |-> SummarizeForCommunication(delegated_response),
      artifact_id  |-> None ]

\* an artifact communication that does not reference the stored artifact
ArtifactCommWithoutId(delegate_to, artifact, stored_id) ==
    [ from_agent   |-> delegate_to,
      to_agent     |-> "business_agent",
      message_type |-> "artifact_created",
      content      |-> ArtifactCreatedPrefix \o artifact.title,
      artifact_id  |-> None ]

\* artifact_comm
ArtifactComm(delegate_to, artifact, stored_id) ==
    [ from_agent   |-> delegate_to,
      to_agent     |-> "business_agent",
      message_type |-> "artifact_created",
      content      |-> ArtifactCreatedPrefix \o artifact.title,
      artifact_id  |-> stored_id ]

\* Artifact.id: a fresh identifier per stored row
NewArtifactId(stored) == "artifact-" \o ToString(Len(stored) + 1)

\* the Artifact row _store_artifact adds to the session
ArtifactRow(id, agent, artifact) ==
    [ id               |-> id,
      artifact_type    |-> artifact.type,
      title            |-> artifact.title,
      content          |-> artifact.content,
      created_by_agent |-> agent ]

\* the dict _store_artifact returns
StoredArtifact(row) ==
    [ id               |-> row.id,
      type             |-> row.artifact_type,
      title            |-> row.title,
      created_by_agent |-> row.created_by_agent ]

\* a delegation that goes to the lookup without recording the delegation
PcAfterPrimaryUnrecorded(res) ==
    IF Truthy(res.delegate_to) THEN "delegate_lookup" ELSE "primary_artifact_check"

\* where process_message continues once the primary Outcome is known
PcAfterPrimary(res) ==
    IF Truthy(res.delegate_to) THEN "delegating" ELSE "primary_artifact_check"

\* where process_message continues once the delegation is recorded
PcAfterDelegation(delegate_to) ==
    IF LookupDelegate(delegate_to) THEN "delegate_processing"
    ELSE "primary_artifact_check"

\* a delegate whose own delegation target is followed
PcAfterDelegateChained(delegated) ==
    IF Truthy(delegated.delegate_to) THEN "delegate_lookup" ELSE "artifact_check"

\* where process_message continues once the delegate's Outcome is recorded
PcAfterDelegate(delegated) == "artifact_check"

\* context = {"user_message": ..., "history": ..., "project_context": ...}
TurnContext(user_message, history, name) ==
    [ user_message    |-> user_message,
      history         |-> history,
      project_context |-> [name |-> name] ]

\* a delegate that is handed the primary's text as the user message
DelegateContextFromPrimary(context, res) ==
    [ context EXCEPT !.user_message = res.response ]

\* the context delegated_agent.process is called with
DelegateContext(context, res) == context

\* get_system_prompt(): the built-in prompt of a responder
DefaultPrompt(agent) == "<system prompt of " \o agent \o ">"

\* get_active_system_prompt() of an agent instance whose override field is custom
ActivePrompt(agent, custom) == IF Truthy(custom) THEN custom ELSE DefaultPrompt(agent)

\* the _custom_system_prompt update_agent_prompt leaves on its agent instance
OverrideFor(custom_prompt, use_custom_prompt) ==
    IF use_custom_prompt /\ Truthy(custom_prompt) THEN custom_prompt ELSE None

\* the AgentConfig row update_agent_prompt commits: custom_prompt is not a column
\* of the table, whose custom_system_prompt column no handler writes
ConfigRow(use_custom_prompt) ==
    [ use_custom_prompt    |-> use_custom_prompt,
      custom_system_prompt |-> None ]

\* system=active_prompt of _invoke_llm, for an agent of the calling orchestrator
SubmittedPrompt(agent, overrides) ==
    ActivePrompt(agent, IF agent \in DOMAIN overrides THEN overrides[agent] ELSE None)

\* the dict process_message returns
ReturnValue(res, agent, comms, arts) ==
    [ agent                |-> res.agent,
      agent_name           |-> res.agent_name,
      response             |-> res.response,
      needs_escalation     |-> res.needs_escalation,
      delegate_to          |-> res.delegate_to,
      delegated_response   |-> res.delegated_response,
      usage                |-> res.usage,
      current_agent        |-> agent,
      suggested_next_agent |-> res.delegate_to,
      communications       |-> comms,
      artifacts            |-> arts ]

\* TokenUsage(...) of send_message
TokenUsageRow(agent_result) ==
    [ input_tokens  |-> agent_result.usage.input_tokens,
      output_tokens |-> agent_result.usage.output_tokens,
      total_tokens  |-> agent_result.usage.total_tokens ]

\* Conversation(agent_type=...) of a conversation the chat endpoint creates
NewConversationAgent == "business_agent"

(***************************************************************************)
(* Inputs of the model                                                     *)
(***************************************************************************)
\* request.content / message
UserMessages ==
    { "What's our competitive landscape?",
      "Plan the development",
      "User stories and architecture",
      "Ask the CPO to validate the stack",
      "Technical research",
      "Tech lead, pick a stack",
      "{U1089}{u1090}{u1072}{u1090}{u1091}{u1089} {u1087}{u1088}{u1086}{u1077}{u1082}{u1090}{u1072}" }

\* current_agent of a direct call of process_message
PreviousAgents == AgentIds \cup {None, "Project Manager"}

\* project_context.get("name"); None when the key is missing
ProjectNames == {"Acme", None}

\* conversation_history: the earlier messages of the conversation
EarlierMessages ==
    << [role |-> "user", content |-> "Hello"],
       [role |-> "assistant", content |-> "Noted."] >>

Histories == { << >>, EarlierMessages }

\* project.name on the chat path
ChatProjectName == "Acme"

\* text the generation service returns
LlmTexts ==
    { "Noted, go/no-go and ltv/cac pending.",
      "DELEGATE TO DISCOVERY for market validation",
      "Delegate to Business: YOUR DECISION on requirements",
      "GO/NO-GO: GO. TAM: 5M",
      "Architecture: monolith",
      "LTV/CAC = 3. User Stories: DELEGATE TO DELIVERY" }

\* <<response.usage.input_tokens, response.usage.output_tokens>>
LlmTokenCounts == { <<10, 20>>, <<5, 5>> }

\* agent_type of the prompt configuration requests
PromptAgents == {"business_agent"}

\* update.custom_prompt
CustomPrompts == {None, "You are terse."}

\* request.content of the turns run next to prompt configuration
PromptTurnMessages == {"What's our competitive landscape?", "Plan the development"}

\* agent of a call of _extract_artifact
DetectAgents == AgentIds \cup {"marketing_agent"}

\* current_user.token_limit of the user whose requests are modelled
UserTokenLimit == 30

\* a run of n filler characters, built by doubling
RECURSIVE Filler(_)
Filler(n) ==
    IF n = 0 THEN ""
    ELSE IF n % 2 = 1 THEN "x" \o Filler(n - 1)
    ELSE LET half == Filler(n \div 2) IN half \o half

\* generated text at, just over and well over the summary limit
LongTexts ==
    { "TAM: " \o Filler(SummaryLimit - 5),
      "TAM: " \o Filler(SummaryLimit - 4),
      "TAM: " \o Filler(SummaryLimit + 145) }

\* request.content of the turns whose delegate answers at length
SummaryTurnMessages == {"Plan the development"}

\* generated text that names two delegation candidates, the later one first, or
\* only the Business responder and no escalation
DelegationTexts ==
    { "Delegate to Tech Lead, then delegate to Discovery",
      "{#8594} cpo and {#8594} Delivery",
      "Delegate to CPO for pricing" }

\* message of those turns: it holds no routing keyword
DelegationTurnMessages == {"What's our competitive landscape?"}

\* current_agent of the turns whose primary scans its text for a delegation target
DelegatingAgents == {"project_manager_agent", "business_agent"}

\* how many calls that read or write an override run at the same time
PromptCallSlots == 2

PromptCallIds == 1..PromptCallSlots

\* a slot in which no call is running
IdlePromptCall ==
    [ pc |-> "idle", op |-> None, agent_type |-> None, custom_prompt |-> None,
      use_custom_prompt |-> FALSE, config |-> None, prompt |-> None ]

\* how many send_message requests of the user run at the same time
ChatCallSlots == 2

ChatCallIds == 1..ChatCallSlots

\* how many turns of the user are followed
MaxChatTurns == 5

\* a slot in which no request is running
IdleChatCall == [ pc |-> "idle", tokens_seen |-> 0 ]

\* how many Artifact rows the project may hold
MaxArtifacts == 4

\* artifact_data.content of an update; None when the field is left out
ArtifactContents == {None, "revised text"}

\* delegation targets, not registered ids, that such a responder may name
StubTargets == {"marketing_agent", "discovery"}

(***************************************************************************)
(* State                                                                   *)
(***************************************************************************)
VARIABLES
    conv_agent,        \* conversation.agent_type as committed; None: no conversation
    tokens_used,       \* current_user.tokens_used as committed
    assistant_messages,\* number of assistant Message rows committed
    token_usage,       \* TokenUsage rows committed, in order
    response_status,   \* how the last request ended; None while one is running
    agent_config,      \* AgentConfig rows committed, by agent_type; Absent: no row
    api_custom_prompt, \* _custom_system_prompt of the agents of api/agents.py's orchestrator
    chat_custom_prompt,\* _custom_system_prompt of the agents of api/chat.py's orchestrator
    prompt_calls,      \* the running calls that read or write an override of api/agents.py's agents
    chat_calls,        \* the send_message requests of the user that run at the same time
    artifact_rows,     \* the Artifact rows of the project as committed, oldest first
    detections,        \* the last two calls of _extract_artifact made on their own
    pc,                \* position of the turn in process_message
    caller,            \* "chat" (send_message) or "direct"
    message,           \* the user text
    conversation_history, \* the earlier messages passed in
    current_agent,     \* the previous responder passed in
    persist,           \* db and project_id are both given
    project_name,      \* project_context.get("name")
    new_conversation,  \* the chat request created its conversation
    agent_name,        \* the Router's selection
    result,            \* the primary Outcome, merged in place
    primary_result,    \* the Outcome as the primary responder returned it
    delegated_result,  \* the delegate's Outcome
    communications,    \* the turn's communications list
    artifacts,         \* the turn's artifacts list
    session_comms,     \* AgentCommunication rows added to the db session
    session_artifacts, \* Artifact rows added to the db session
    invocations,       \* responders whose process() was called, in order
    contexts,          \* the context each of those calls was given
    prompts,           \* the prompt each of those calls submitted
    returned,          \* what process_message returned
    error              \* the exception that ended the turn

request == << caller, message, conversation_history, current_agent, persist, project_name,
             new_conversation >>

locals == << agent_name, result, primary_result, delegated_result, communications, artifacts,
             invocations, contexts, prompts, returned, error >>

session == << session_comms, session_artifacts >>

\* what send_message commits besides the conversation
ledger == << tokens_used, assistant_messages, token_usage, response_status >>

\* what lives outside a turn: prompt configuration (the persisted rows and the
\* two orchestrators' agents), the requests that run as concurrent coroutines,
\* and the project's artifacts
registry == << agent_config, api_custom_prompt, chat_custom_prompt, prompt_calls, chat_calls,
               artifact_rows >>

vars == << conv_agent, ledger, registry, detections, pc, request, locals, session >>

NoTurn ==
    /\ caller = None
    /\ message = ""
    /\ conversation_history = << >>
    /\ current_agent = None
    /\ persist = FALSE
    /\ project_name = None
    /\ new_conversation = FALSE
    /\ agent_name = None
    /\ result = Absent
    /\ primary_result = Absent
    /\ delegated_result = Absent
    /\ communications = << >>
    /\ artifacts = << >>
    /\ session_comms = << >>
    /\ session_artifacts = << >>
    /\ invocations = << >>
    /\ contexts = << >>
    /\ prompts = << >>
    /\ returned = Absent
    /\ error = None

Init ==
    /\ conv_agent = None
    /\ tokens_used = 0
    /\ assistant_messages = 0
    /\ token_usage = << >>
    /\ response_status = None
    /\ agent_config = [a \in AgentIds |-> Absent]
    /\ api_custom_prompt = [a \in AgentIds |-> None]
    /\ chat_custom_prompt = [a \in AgentIds |-> None]
    /\ prompt_calls = [id \in PromptCallIds |-> IdlePromptCall]
    /\ chat_calls = [id \in ChatCallIds |-> IdleChatCall]
    /\ artifact_rows = << >>
    /\ detections = << >>
    /\ pc = "idle"
    /\ NoTurn

\* the state a new call of process_message starts from
FreshLocals ==
    /\ agent_name' = None
    /\ result' = Absent
    /\ primary_result' = Absent
    /\ delegated_result' = Absent
    /\ communications' = << >>
    /\ artifacts' = << >>
    /\ session_comms' = << >>
    /\ session_artifacts' = << >>
    /\ invocations' = << >>
    /\ contexts' = << >>
    /\ prompts' = << >>
    /\ returned' = Absent
    /\ error' = None

\* the request is over: nothing of the turn is kept
EndTurn ==
    /\ caller' = None
    /\ message' = ""
    /\ conversation_history' = << >>
    /\ current_agent' = None
    /\ persist' = FALSE
    /\ project_name' = None
    /\ new_conversation' = FALSE
    /\ FreshLocals

(***************************************************************************)
(* Entry points                                                            *)
(***************************************************************************)
\* any caller: process_message(message, history, project_context, current_agent, db, ...)
StartDirect(m, history, prev, p, name) ==
    /\ pc = "idle"
    /\ pc' = "routing"
    /\ caller' = "direct"
    /\ message' = m
    /\ conversation_history' = history
    /\ current_agent' = prev
    /\ persist' = p
    /\ project_name' = name
    /\ new_conversation' = FALSE
    /\ FreshLocals
    /\ response_status' = None
    /\ UNCHANGED << conv_agent, detections, registry, tokens_used, assistant_messages, token_usage >>

\* an endpoint that admits the request whatever the user has consumed
StartChatUnchecked(m, existing) ==
    /\ pc = "idle"
    /\ existing => conv_agent # None
    /\ pc' = "routing"
    /\ caller' = "chat"
    /\ message' = m
    /\ conversation_history' = IF existing THEN EarlierMessages ELSE << >>
    /\ current_agent' = IF existing THEN conv_agent ELSE NewConversationAgent
    /\ persist' = TRUE
    /\ project_name' = ChatProjectName
    /\ new_conversation' = ~existing
    /\ FreshLocals
    /\ response_status' = None
    /\ UNCHANGED << conv_agent, detections, registry, tokens_used, assistant_messages, token_usage >>

\* send_message up to the call of orchestrator.process_message
StartChat(m, existing) ==
    /\ pc = "idle"
    /\ tokens_used < UserTokenLimit
    /\ existing => conv_agent # None
    /\ pc' = "routing"
    /\ caller' = "chat"
    /\ message' = m
    /\ conversation_history' = IF existing THEN EarlierMessages ELSE << >>
    /\ current_agent' = IF existing THEN conv_agent ELSE NewConversationAgent
    /\ persist' = TRUE
    /\ project_name' = ChatProjectName
    /\ new_conversation' = ~existing
    /\ FreshLocals
    /\ response_status' = None
    /\ UNCHANGED << conv_agent, detections, registry, tokens_used, assistant_messages, token_usage >>

\* send_message for a user at or over the token limit: HTTP 403 before anything else
RejectChat ==
    /\ pc = "idle"
    /\ tokens_used >= UserTokenLimit
    /\ response_status' = "403"
    /\ UNCHANGED << conv_agent, detections, registry, tokens_used, assistant_messages, token_usage, pc,
                    request, locals, session >>

(***************************************************************************)
(* process_message                                                         *)
(***************************************************************************)
\* ROUTING: select the responder and call its process()
Route ==
    /\ pc = "routing"
    /\ agent_name' = RouteAgent(message, current_agent)
    /\ communications' = << >>
    /\ artifacts' = << >>
    /\ invocations' = << ResolveAgent(agent_name') >>
    /\ contexts' = << TurnContext(message, conversation_history, project_name) >>
    /\ prompts' = << SubmittedPrompt(ResolveAgent(agent_name'), chat_custom_prompt) >>
    /\ pc' = "primary_processing"
    /\ UNCHANGED << conv_agent, detections, ledger, registry, request, session, result, primary_result, delegated_result,
                    returned, error >>

\* PRIMARY_PROCESSING: the primary responder returns its Outcome
PrimaryReturns(text, input_tokens, output_tokens) ==
    /\ pc = "primary_processing"
    /\ result' = AgentProcess(ResolveAgent(agent_name), text,
                              LlmUsage(input_tokens, output_tokens))
    /\ primary_result' = result'
    /\ pc' = PcAfterPrimary(result')
    /\ UNCHANGED << conv_agent, detections, ledger, registry, request, session, agent_name, delegated_result,
                    communications, artifacts, invocations, contexts, prompts, returned, error >>

\* PRIMARY_PROCESSING with a responder that only honours the process() contract:
\* its delegation target is any string
PrimaryReturnsStub(text, input_tokens, output_tokens, target) ==
    /\ pc = "primary_processing"
    /\ result' = [ AgentProcess(ResolveAgent(agent_name), text,
                                LlmUsage(input_tokens, output_tokens))
                   EXCEPT !.delegate_to = target ]
    /\ primary_result' = result'
    /\ pc' = PcAfterPrimary(result')
    /\ UNCHANGED << conv_agent, detections, ledger, registry, request, session, agent_name, delegated_result,
                    communications, artifacts, invocations, contexts, prompts, returned, error >>

\* the text-generation call of the primary raises
PrimaryFails ==
    /\ pc = "primary_processing"
    /\ pc' = "failed"
    /\ error' = "llm"
    /\ UNCHANGED << conv_agent, detections, ledger, registry, request, session, agent_name, result, primary_result,
                    delegated_result, communications, artifacts, invocations, contexts, prompts,
                    returned >>

\* DELEGATING: record the delegation communication
Delegate ==
    /\ pc = "delegating"
    /\ LET delegate_to == result.delegate_to
           delegation_comm == DelegationComm(agent_name, delegate_to, project_name)
       IN /\ communications' = Append(communications, delegation_comm)
          /\ session_comms' = IF persist THEN Append(session_comms, delegation_comm)
                              ELSE session_comms
    /\ pc' = "delegate_lookup"
    /\ UNCHANGED << conv_agent, detections, ledger, registry, request, session_artifacts, agent_name, result,
                    primary_result, delegated_result, artifacts, invocations, contexts, prompts,
                    returned, error >>

\* DELEGATING: look the target up and, if it is registered, call its process()
InvokeDelegate ==
    /\ pc = "delegate_lookup"
    /\ invocations' = IF LookupDelegate(result.delegate_to)
                      THEN Append(invocations, result.delegate_to)
                      ELSE invocations
    /\ contexts' = IF LookupDelegate(result.delegate_to)
                   THEN Append(contexts, DelegateContext(contexts[1], result))
                   ELSE contexts
    /\ prompts' = IF LookupDelegate(result.delegate_to)
                  THEN Append(prompts,
                              SubmittedPrompt(result.delegate_to, chat_custom_prompt))
                  ELSE prompts
    /\ pc' = PcAfterDelegation(result.delegate_to)
    /\ UNCHANGED << conv_agent, detections, ledger, registry, request, session, agent_name, result,
                    primary_result, delegated_result, communications, artifacts,
                    returned, error >>

\* DELEGATE_PROCESSING: the delegate returns; record the response communication
DelegateReturns(text, input_tokens, output_tokens) ==
    /\ pc = "delegate_processing"
    /\ LET delegate_to == result.delegate_to
           delegated == AgentProcess(delegate_to, text,
                                     LlmUsage(input_tokens, output_tokens))
           response_comm == ResponseComm(delegate_to, agent_name, delegated.response)
       IN /\ delegated_result' = delegated
          /\ communications' = Append(communications, response_comm)
          /\ session_comms' = IF persist THEN Append(session_comms, response_comm)
                              ELSE session_comms
          /\ pc' = PcAfterDelegate(delegated)
    /\ UNCHANGED << conv_agent, detections, ledger, registry, request, session_artifacts, agent_name, result, primary_result,
                    artifacts, invocations, contexts, prompts, returned, error >>

\* a delegate failure that surfaces only after the response communication was recorded
DelegateFailsHalfRecorded ==
    /\ pc = "delegate_processing"
    /\ pc' = "failed"
    /\ error' = "llm"
    /\ LET response_comm == ResponseComm(result.delegate_to, agent_name, "")
       IN /\ communications' = Append(communications, response_comm)
          /\ session_comms' = IF persist THEN Append(session_comms, response_comm)
                              ELSE session_comms
    /\ UNCHANGED << conv_agent, detections, ledger, registry, request, session_artifacts, agent_name, result,
                    primary_result, delegated_result, artifacts, invocations, contexts, prompts,
                    returned >>

\* the text-generation call of the delegate raises
DelegateFails ==
    /\ pc = "delegate_processing"
    /\ pc' = "failed"
    /\ error' = "llm"
    /\ UNCHANGED << conv_agent, detections, ledger, registry, request, session, agent_name, result, primary_result,
                    delegated_result, communications, artifacts, invocations, contexts, prompts,
                    returned >>

\* ARTIFACT_CHECK: scan the delegate's text, store the artifact and its communication
ArtifactCheck ==
    /\ pc = "artifact_check"
    /\ LET delegate_to == result.delegate_to
           artifact == ExtractArtifact(delegated_result.response, delegate_to,
                                       project_name)
           row == ArtifactRow(NewArtifactId(session_artifacts), delegate_to, artifact)
           artifact_comm == ArtifactComm(delegate_to, artifact, row.id)
       IN IF artifact # Absent /\ persist
          THEN /\ session_artifacts' = Append(session_artifacts, row)
               /\ artifacts' = Append(artifacts, StoredArtifact(row))
               /\ communications' = Append(communications, artifact_comm)
               /\ session_comms' = Append(session_comms, artifact_comm)
          ELSE UNCHANGED << session, artifacts, communications >>
    /\ pc' = "merge"
    /\ UNCHANGED << conv_agent, detections, ledger, registry, request, agent_name, result, primary_result, delegated_result,
                    invocations, contexts, prompts, returned, error >>

\* a merge that also raises the escalation flag when the delegate raised its own
MergeEscalationToo ==
    /\ pc = "merge"
    /\ result' = [ result EXCEPT
                     !.delegated_response = delegated_result.response,
                     !.response = CombineResponses(result.response,
                                     delegated_result.response, result.delegate_to),
                     !.usage = MergeUsage(result.usage, delegated_result.usage),
                     !.needs_escalation = @ \/ delegated_result.needs_escalation ]
    /\ pc' = "primary_artifact_check"
    /\ UNCHANGED << conv_agent, detections, ledger, registry, request, session, agent_name, primary_result,
                    delegated_result,
                    communications, artifacts, invocations, contexts, prompts, returned, error >>

\* a merge that is only carried out when the turn persists
MergeOnlyWhenPersisting ==
    /\ pc = "merge"
    /\ result' = IF persist
                 THEN [ result EXCEPT
                          !.delegated_response = delegated_result.response,
                          !.response = CombineResponses(result.response,
                                          delegated_result.response, result.delegate_to),
                          !.usage = MergeUsage(result.usage, delegated_result.usage) ]
                 ELSE result
    /\ pc' = "primary_artifact_check"
    /\ UNCHANGED << conv_agent, detections, ledger, registry, request, session, agent_name, primary_result,
                    delegated_result,
                    communications, artifacts, invocations, contexts, prompts, returned, error >>

\* MERGE: combine the two texts and the two usages
Merge ==
    /\ pc = "merge"
    /\ result' = [ result EXCEPT
                     !.delegated_response = delegated_result.response,
                     !.response = CombineResponses(result.response,
                                     delegated_result.response, result.delegate_to),
                     !.usage = MergeUsage(result.usage, delegated_result.usage) ]
    /\ pc' = "primary_artifact_check"
    /\ UNCHANGED << conv_agent, detections, ledger, registry, request, session, agent_name, primary_result,
                    delegated_result,
                    communications, artifacts, invocations, contexts, prompts, returned, error >>

\* the artifact check on result["response"] under the Router's id, then the return
PrimaryArtifactCheck ==
    /\ pc = "primary_artifact_check"
    /\ LET artifact == ExtractArtifact(result.response, agent_name, project_name)
           row == ArtifactRow(NewArtifactId(session_artifacts), agent_name, artifact)
           arts == IF artifact # Absent /\ persist
                   THEN Append(artifacts, StoredArtifact(row))
                   ELSE artifacts
       IN /\ session_artifacts' = IF artifact # Absent /\ persist
                                  THEN Append(session_artifacts, row)
                                  ELSE session_artifacts
          /\ artifacts' = arts
          /\ returned' = ReturnValue(result, agent_name, communications, arts)
    /\ pc' = "done"
    /\ UNCHANGED << conv_agent, detections, ledger, registry, request, session_comms, agent_name, result, primary_result,
                    delegated_result, communications, invocations, contexts, prompts, error >>

\* the blocks of process_message that write to the db session when the turn persists
StoresAt(p) ==
    CASE p = "delegating" -> TRUE
      [] p = "delegate_processing" -> TRUE
      [] p = "artifact_check" ->
           ExtractArtifact(delegated_result.response, result.delegate_to,
                           project_name) # Absent
      [] p = "primary_artifact_check" ->
           ExtractArtifact(result.response, agent_name, project_name) # Absent
      [] OTHER -> FALSE

\* db.flush() raises inside _store_communication or _store_artifact
PersistenceFails ==
    /\ persist
    /\ StoresAt(pc)
    /\ pc' = "failed"
    /\ error' = "persistence"
    /\ UNCHANGED << conv_agent, detections, ledger, registry, request, session, agent_name, result, primary_result,
                    delegated_result, communications, artifacts, invocations, contexts, prompts,
                    returned >>

(***************************************************************************)
(* Callers after process_message                                           *)
(***************************************************************************)
\* an endpoint that hands the conversation over to the responder delegated to
FinishChatFollowsDelegate ==
    /\ pc = "done"
    /\ caller = "chat"
    /\ assistant_messages' = assistant_messages + 1
    /\ IF UsagePresent(returned.usage)
       THEN /\ token_usage' = Append(token_usage, TokenUsageRow(returned))
            /\ tokens_used' = tokens_used + returned.usage.total_tokens
       ELSE UNCHANGED << token_usage, tokens_used >>
    /\ conv_agent' = IF Truthy(returned.suggested_next_agent)
                     THEN returned.suggested_next_agent
                     ELSE returned.current_agent
    /\ response_status' = "200"
    /\ pc' = "idle"
    /\ EndTurn
    /\ UNCHANGED << registry, detections >>

\* send_message after the orchestrator returned: conversation.agent_type, commit
FinishChat ==
    /\ pc = "done"
    /\ caller = "chat"
    /\ assistant_messages' = assistant_messages + 1
    /\ IF UsagePresent(returned.usage)
       THEN /\ token_usage' = Append(token_usage, TokenUsageRow(returned))
            /\ tokens_used' = tokens_used + returned.usage.total_tokens
       ELSE UNCHANGED << token_usage, tokens_used >>
    /\ conv_agent' = returned.current_agent
    /\ response_status' = "200"
    /\ pc' = "idle"
    /\ EndTurn
    /\ UNCHANGED << registry, detections >>

\* a direct caller receives the returned dict
FinishDirect ==
    /\ pc = "done"
    /\ caller = "direct"
    /\ pc' = "idle"
    /\ EndTurn
    /\ response_status' = "returned"
    /\ UNCHANGED << conv_agent, detections, registry, tokens_used, assistant_messages, token_usage >>

\* a failed request that still charges the user for the hop that succeeded
AbortChargesPrimary ==
    /\ pc = "failed"
    /\ pc' = "idle"
    /\ EndTurn
    /\ response_status' = IF caller = "chat" THEN "500" ELSE "raised"
    /\ tokens_used' = IF caller = "chat" /\ primary_result # Absent
                      THEN tokens_used + primary_result.usage.total_tokens
                      ELSE tokens_used
    /\ UNCHANGED << conv_agent, detections, registry, assistant_messages, token_usage >>

\* the exception reaches the caller (send_message answers 500, nothing committed)
Abort ==
    /\ pc = "failed"
    /\ pc' = "idle"
    /\ EndTurn
    /\ response_status' = IF caller = "chat" THEN "500" ELSE "raised"
    /\ UNCHANGED << conv_agent, detections, registry, tokens_used, assistant_messages, token_usage >>

\* PRIMARY_PROCESSING with a responder whose Outcome carries no usage
PrimaryReturnsWithoutUsage(text) ==
    /\ pc = "primary_processing"
    /\ result' = AgentProcess(ResolveAgent(agent_name), text, Absent)
    /\ primary_result' = result'
    /\ pc' = PcAfterPrimary(result')
    /\ UNCHANGED << conv_agent, detections, ledger, registry, request, session, agent_name, delegated_result,
                    communications, artifacts, invocations, contexts, prompts, returned, error >>

\* DELEGATE_PROCESSING with a delegate whose Outcome carries no usage
DelegateReturnsWithoutUsage(text) ==
    /\ pc = "delegate_processing"
    /\ LET delegate_to == result.delegate_to
           delegated == AgentProcess(delegate_to, text, Absent)
           response_comm == ResponseComm(delegate_to, agent_name, delegated.response)
       IN /\ delegated_result' = delegated
          /\ communications' = Append(communications, response_comm)
          /\ session_comms' = IF persist THEN Append(session_comms, response_comm)
                              ELSE session_comms
          /\ pc' = PcAfterDelegate(delegated)
    /\ UNCHANGED << conv_agent, detections, ledger, registry, request, session_artifacts, agent_name, result, primary_result,
                    artifacts, invocations, contexts, prompts, returned, error >>

(***************************************************************************)
(* Prompt configuration (api/agents.py)                                    *)
(***************************************************************************)
\* PUT /agents/prompts/{agent_type}
UpdateAgentPrompt(agent_type, custom_prompt, use_custom_prompt) ==
    /\ agent_type \in AgentIds
    /\ agent_config' = [agent_config EXCEPT ![agent_type] = ConfigRow(use_custom_prompt)]
    /\ api_custom_prompt' =
          [api_custom_prompt EXCEPT
              ![agent_type] = OverrideFor(custom_prompt, use_custom_prompt)]
    /\ UNCHANGED << conv_agent, detections, ledger, chat_custom_prompt, artifact_rows, prompt_calls, chat_calls,
                    pc, request, locals, session >>

\* POST /agents/prompts/{agent_type}/reset
ResetAgentPrompt(agent_type) ==
    /\ agent_type \in AgentIds
    /\ agent_config' =
          [agent_config EXCEPT
              ![agent_type] = IF @ = Absent THEN @ ELSE ConfigRow(FALSE)]
    /\ api_custom_prompt' = [api_custom_prompt EXCEPT ![agent_type] = None]
    /\ UNCHANGED << conv_agent, detections, ledger, chat_custom_prompt, artifact_rows, prompt_calls, chat_calls,
                    pc, request, locals, session >>

(***************************************************************************)
(* Artifact Detection called on its own                                    *)
(***************************************************************************)
(***************************************************************************)
(* Prompt configuration and generation as concurrent coroutines: a step    *)
(* runs from one await to the next                                         *)
(***************************************************************************)
\* the value the handler's final assignment gives agent._custom_system_prompt
PendingOverride(call) ==
    IF call.op = "update" THEN OverrideFor(call.custom_prompt, call.use_custom_prompt)
    ELSE None

\* the AgentConfig row the handler's commit leaves
PendingConfig(call) ==
    IF call.op = "update" THEN ConfigRow(call.use_custom_prompt) ELSE ConfigRow(FALSE)

\* update_agent_prompt / reset_agent_prompt up to await db.execute(select(AgentConfig))
PromptCallBegins(id, op, agent_type, custom_prompt, use_custom_prompt) ==
    /\ prompt_calls[id].pc = "idle"
    /\ agent_type \in AgentIds
    /\ op = "reset" => custom_prompt = None /\ ~use_custom_prompt
    /\ prompt_calls' =
          [prompt_calls EXCEPT ![id] =
              [ pc |-> "select", op |-> op, agent_type |-> agent_type,
                custom_prompt |-> custom_prompt,
                use_custom_prompt |-> use_custom_prompt,
                config |-> None, prompt |-> None ]]
    /\ UNCHANGED << conv_agent, detections, ledger, agent_config, api_custom_prompt,
                    chat_custom_prompt, artifact_rows, chat_calls, pc, request, locals, session >>

\* the select returns; the handler runs on to await db.commit(), or, in
\* reset_agent_prompt without a row, to its end
PromptCallSelects(id) ==
    /\ prompt_calls[id].pc = "select"
    /\ LET call == prompt_calls[id]
           found == agent_config[call.agent_type] # Absent
       IN IF call.op = "reset" /\ ~found
          THEN /\ api_custom_prompt' =
                     [api_custom_prompt EXCEPT ![call.agent_type] = None]
               /\ prompt_calls' = [prompt_calls EXCEPT ![id] = IdlePromptCall]
          ELSE /\ prompt_calls' =
                     [prompt_calls EXCEPT
                         ![id].pc = "commit",
                         ![id].config = IF found THEN "found" ELSE "new"]
               /\ UNCHANGED api_custom_prompt
    /\ UNCHANGED << conv_agent, detections, ledger, agent_config, chat_custom_prompt, artifact_rows, chat_calls, pc,
                    request, locals, session >>

\* the commit takes effect; the INSERT of a row another call has inserted
\* meanwhile violates unique(agent_type) and ends the handler
PromptCallCommits(id) ==
    /\ prompt_calls[id].pc = "commit"
    /\ LET call == prompt_calls[id]
           duplicate == call.config = "new" /\ agent_config[call.agent_type] # Absent
       IN IF duplicate
          THEN /\ prompt_calls' = [prompt_calls EXCEPT ![id] = IdlePromptCall]
               /\ UNCHANGED agent_config
          ELSE /\ agent_config' =
                     [agent_config EXCEPT ![call.agent_type] = PendingConfig(call)]
               /\ prompt_calls' = [prompt_calls EXCEPT ![id].pc = "assign"]
    /\ UNCHANGED << conv_agent, detections, ledger, api_custom_prompt, chat_custom_prompt, artifact_rows, chat_calls, pc,
                    request, locals, session >>

\* the handler resumes after its last await and assigns agent._custom_system_prompt
PromptCallAssigns(id) ==
    /\ prompt_calls[id].pc = "assign"
    /\ LET call == prompt_calls[id]
       IN api_custom_prompt' =
             [api_custom_prompt EXCEPT ![call.agent_type] = PendingOverride(call)]
    /\ prompt_calls' = [prompt_calls EXCEPT ![id] = IdlePromptCall]
    /\ UNCHANGED << conv_agent, detections, ledger, agent_config, chat_custom_prompt, artifact_rows, chat_calls, pc,
                    request, locals, session >>

\* a read of the active prompt that tests the field and returns what the field
\* holds once a running handler has assigned it
InvokeLlmTorn(id, agent_type) ==
    /\ prompt_calls[id].pc = "idle"
    /\ agent_type \in AgentIds
    /\ \E later \in {api_custom_prompt[agent_type]}
                       \cup { PendingOverride(prompt_calls[j]) :
                                j \in { k \in PromptCallIds :
                                          /\ prompt_calls[k].pc = "assign"
                                          /\ prompt_calls[k].agent_type = agent_type } } :
          prompt_calls' =
             [prompt_calls EXCEPT ![id] =
                 [ IdlePromptCall EXCEPT
                     !.pc = "generating", !.op = "invoke", !.agent_type = agent_type,
                     !.prompt = IF Truthy(api_custom_prompt[agent_type]) THEN later
                                ELSE DefaultPrompt(agent_type) ]]
    /\ UNCHANGED << conv_agent, detections, ledger, agent_config, api_custom_prompt,
                    chat_custom_prompt, artifact_rows, chat_calls, pc, request, locals, session >>

\* agent._invoke_llm up to await self.client.messages.create(system=active_prompt, ...)
InvokeLlm(id, agent_type) ==
    /\ prompt_calls[id].pc = "idle"
    /\ agent_type \in AgentIds
    /\ prompt_calls' =
          [prompt_calls EXCEPT ![id] =
              [ IdlePromptCall EXCEPT
                  !.pc = "generating", !.op = "invoke", !.agent_type = agent_type,
                  !.prompt = ActivePrompt(agent_type, api_custom_prompt[agent_type]) ]]
    /\ UNCHANGED << conv_agent, detections, ledger, agent_config, api_custom_prompt,
                    chat_custom_prompt, artifact_rows, chat_calls, pc, request, locals, session >>

\* the generation service answers and _invoke_llm returns
LlmReturns(id) ==
    /\ prompt_calls[id].pc = "generating"
    /\ prompt_calls' = [prompt_calls EXCEPT ![id] = IdlePromptCall]
    /\ UNCHANGED << conv_agent, detections, ledger, agent_config, api_custom_prompt,
                    chat_custom_prompt, artifact_rows, chat_calls, pc, request, locals, session >>

(***************************************************************************)
(* send_message as concurrent coroutines of one user                       *)
(***************************************************************************)
\* the turns begun so far: the usage rows committed and the requests running
TurnsBegun ==
    Len(token_usage) + Cardinality({ id \in ChatCallIds : chat_calls[id].pc # "idle" })

\* send_message with the User object loaded for the request, the token limit
\* check passed, up to await orchestrator.process_message(...)
ChatCallBegins(id) ==
    /\ chat_calls[id].pc = "idle"
    /\ TurnsBegun < MaxChatTurns
    /\ tokens_used < UserTokenLimit
    /\ chat_calls' = [chat_calls EXCEPT ![id] =
                         [ pc |-> "processing", tokens_seen |-> tokens_used ]]
    /\ UNCHANGED << conv_agent, detections, ledger, agent_config, api_custom_prompt,
                    chat_custom_prompt, artifact_rows, prompt_calls, pc, request, locals, session >>

\* process_message has returned; the handler adds the TokenUsage row, sets
\* current_user.tokens_used from the value its User object holds, and commits
ChatCallCommits(id, input_tokens, output_tokens) ==
    /\ chat_calls[id].pc = "processing"
    /\ LET agent_result == [ usage |-> LlmUsage(input_tokens, output_tokens) ]
       IN /\ token_usage' = Append(token_usage, TokenUsageRow(agent_result))
          /\ tokens_used' = chat_calls[id].tokens_seen + agent_result.usage.total_tokens
    /\ assistant_messages' = assistant_messages + 1
    /\ chat_calls' = [chat_calls EXCEPT ![id] = IdleChatCall]
    /\ UNCHANGED << conv_agent, detections, response_status, agent_config, api_custom_prompt,
                    chat_custom_prompt, artifact_rows, prompt_calls, pc, request, locals, session >>

\* process_message raises: HTTP 500, nothing committed
ChatCallFails(id) ==
    /\ chat_calls[id].pc = "processing"
    /\ chat_calls' = [chat_calls EXCEPT ![id] = IdleChatCall]
    /\ UNCHANGED << conv_agent, detections, ledger, agent_config, api_custom_prompt,
                    chat_custom_prompt, artifact_rows, prompt_calls, pc, request, locals, session >>

(***************************************************************************)
(* Artifacts API (api/artifacts.py)                                        *)
(***************************************************************************)
\* Artifact(...) as create_artifact adds it: version and parent_id by default
NewArtifact(id, content) ==
    [ id |-> id, version |-> 1, parent_id |-> None, content |-> content ]

\* Artifact(...) as update_artifact adds it for a new version
NewVersion(id, artifact, content) ==
    [ id |-> id, version |-> artifact.version + 1, parent_id |-> artifact.id,
      content |-> content ]

\* select(Artifact).where(Artifact.id == artifact_id): the position of the row
RowOf(rows, artifact_id) == CHOOSE k \in 1..Len(rows) : rows[k].id = artifact_id

\* get_project_artifacts: the rows whose parent_id is NULL
GetProjectArtifacts(rows) ==
    { rows[k] : k \in { j \in 1..Len(rows) : rows[j].parent_id = None } }

\* POST /artifacts
CreateArtifact ==
    /\ Len(artifact_rows) < MaxArtifacts
    /\ artifact_rows' =
          Append(artifact_rows, NewArtifact(NewArtifactId(artifact_rows), "first text"))
    /\ UNCHANGED << conv_agent, detections, ledger, agent_config, api_custom_prompt,
                    chat_custom_prompt, prompt_calls, chat_calls, pc, request, locals, session >>

\* PATCH /artifacts/{artifact_id}?create_version=...
UpdateArtifact(artifact_id, content, create_version) ==
    /\ \E k \in 1..Len(artifact_rows) : artifact_rows[k].id = artifact_id
    /\ LET k == RowOf(artifact_rows, artifact_id)
           artifact == artifact_rows[k]
       IN IF create_version /\ Truthy(content)
          THEN /\ Len(artifact_rows) < MaxArtifacts
               /\ artifact_rows' =
                     Append(artifact_rows,
                            NewVersion(NewArtifactId(artifact_rows), artifact, content))
          ELSE artifact_rows' =
                  [artifact_rows EXCEPT
                      ![k].content = IF Truthy(content) THEN content ELSE @]
    /\ UNCHANGED << conv_agent, detections, ledger, agent_config, api_custom_prompt,
                    chat_custom_prompt, prompt_calls, chat_calls, pc, request, locals, session >>

\* the record of one call: its arguments and what it returned
DetectionRecord(response, agent, name, outcome) ==
    [ response |-> response, agent |-> agent, name |-> name, outcome |-> outcome ]

\* the log keeps the two most recent calls
Remember(call) ==
    detections' = IF Len(detections) < 2 THEN Append(detections, call)
                  ELSE << detections[2], call >>

\* a detector that returns an artifact only once per responder
DetectOncePerAgent(response, agent, name) ==
    /\ pc = "idle"
    /\ LET seen == \E k \in 1..Len(detections) :
                      /\ detections[k].agent = agent
                      /\ detections[k].outcome # Absent
           outcome == IF seen THEN Absent ELSE ExtractArtifact(response, agent, name)
       IN Remember(DetectionRecord(response, agent, name, outcome))
    /\ UNCHANGED << conv_agent, ledger, registry, pc, request, locals, session >>

\* self._extract_artifact(response, agent, context)
Detect(response, agent, name) ==
    /\ pc = "idle"
    /\ Remember(DetectionRecord(response, agent, name,
                                ExtractArtifact(response, agent, name)))
    /\ UNCHANGED << conv_agent, ledger, registry, pc, request, locals, session >>

\* the steps of process_message with the five registered responders
TurnStep ==
    \/ Route
    \/ \E t \in LlmTexts, u \in LlmTokenCounts : PrimaryReturns(t, u[1], u[2])
    \/ PrimaryFails
    \/ Delegate
    \/ InvokeDelegate
    \/ \E t \in LlmTexts, u \in LlmTokenCounts : DelegateReturns(t, u[1], u[2])
    \/ DelegateFails
    \/ ArtifactCheck
    \/ Merge
    \/ PrimaryArtifactCheck
    \/ PersistenceFails

\* the chat endpoint: every turn enters through send_message
Next ==
    \/ \E m \in UserMessages, existing \in BOOLEAN : StartChat(m, existing)
    \/ RejectChat
    \/ TurnStep
    \/ FinishChat
    \/ Abort

Spec == Init /\ [][Next]_vars

\* process_message as a unit: any caller, any arguments
NextCore ==
    \/ \E m \in UserMessages, history \in Histories, prev \in PreviousAgents,
          p \in BOOLEAN, name \in ProjectNames :
             StartDirect(m, history, prev, p, name)
    \/ TurnStep
    \/ FinishDirect
    \/ Abort

SpecCore == Init /\ [][NextCore]_vars

\* process_message as a unit, where the primary responder may also be one that
\* only honours the process() contract
NextStub ==
    \/ NextCore
    \/ \E t \in LlmTexts, u \in LlmTokenCounts, target \in StubTargets :
          PrimaryReturnsStub(t, u[1], u[2], target)

SpecStub == Init /\ [][NextStub]_vars

\* process_message as a unit, where a responder's Outcome may come without usage
NextBare ==
    \/ NextCore
    \/ \E t \in LlmTexts : PrimaryReturnsWithoutUsage(t)
    \/ \E t \in LlmTexts : DelegateReturnsWithoutUsage(t)

SpecBare == Init /\ [][NextBare]_vars

(***************************************************************************)
(* Properties                                                              *)
(***************************************************************************)

\* the chat endpoint next to the prompt configuration endpoints
NextPrompts ==
    \/ \E m \in PromptTurnMessages, existing \in BOOLEAN : StartChat(m, existing)
    \/ RejectChat
    \/ TurnStep
    \/ FinishChat
    \/ Abort
    \/ \E a \in PromptAgents, c \in CustomPrompts, u \in BOOLEAN :
          UpdateAgentPrompt(a, c, u)
    \/ \E a \in PromptAgents : ResetAgentPrompt(a)

SpecPrompts == Init /\ [][NextPrompts]_vars

\* Artifact Detection as a unit: any text, any responder id, any project name
NextDetect ==
    \E t \in LlmTexts, a \in DetectAgents, name \in ProjectNames : Detect(t, a, name)

SpecDetect == Init /\ [][NextDetect]_vars

\* process_message as a unit, where the delegate's generated text may be long
NextSummary ==
    \/ \E m \in SummaryTurnMessages, history \in Histories, p \in BOOLEAN,
          name \in ProjectNames :
             StartDirect(m, history, None, p, name)
    \/ TurnStep
    \/ \E t \in LongTexts, u \in LlmTokenCounts : DelegateReturns(t, u[1], u[2])
    \/ FinishDirect
    \/ Abort

SpecSummary == Init /\ [][NextSummary]_vars

\* process_message as a unit, entered with a Project Manager or Business conversation
\* and a primary whose text may name several delegation candidates
NextDelegation ==
    \/ \E m \in DelegationTurnMessages, prev \in DelegatingAgents, p \in BOOLEAN,
          name \in ProjectNames :
             StartDirect(m, << >>, prev, p, name)
    \/ TurnStep
    \/ \E t \in DelegationTexts, u \in LlmTokenCounts : PrimaryReturns(t, u[1], u[2])
    \/ FinishDirect
    \/ Abort

SpecDelegation == Init /\ [][NextDelegation]_vars

\* the prompt configuration handlers and calls of _invoke_llm on the same agent
\* objects, interleaved at their awaits
NextOverride ==
    \/ \E id \in PromptCallIds, a \in PromptAgents, c \in CustomPrompts, u \in BOOLEAN :
          PromptCallBegins(id, "update", a, c, u)
    \/ \E id \in PromptCallIds, a \in PromptAgents :
          PromptCallBegins(id, "reset", a, None, FALSE)
    \/ \E id \in PromptCallIds : PromptCallSelects(id)
    \/ \E id \in PromptCallIds : PromptCallCommits(id)
    \/ \E id \in PromptCallIds : PromptCallAssigns(id)
    \/ \E id \in PromptCallIds, a \in PromptAgents : InvokeLlm(id, a)
    \/ \E id \in PromptCallIds : LlmReturns(id)

SpecOverride == Init /\ [][NextOverride]_vars

\* the chat endpoint serving several requests of one user at once
NextChatCalls ==
    \/ \E id \in ChatCallIds : ChatCallBegins(id)
    \/ \E id \in ChatCallIds, u \in LlmTokenCounts : ChatCallCommits(id, u[1], u[2])
    \/ \E id \in ChatCallIds : ChatCallFails(id)

SpecChatCalls == Init /\ [][NextChatCalls]_vars

\* the ids an update may name: those of the rows there are
ArtifactIds == { "artifact-" \o ToString(k) : k \in 1..MaxArtifacts }

\* the artifacts API: any sequence of creations and updates
NextArtifacts ==
    \/ CreateArtifact
    \/ \E id \in ArtifactIds, content \in ArtifactContents, v \in BOOLEAN :
          UpdateArtifact(id, content, v)

SpecArtifacts == Init /\ [][NextArtifacts]_vars

\* the primary Outcome's delegation target, once the primary has returned
DelegationTarget == primary_result.delegate_to

PrimaryReturned == primary_result # Absent

\* the responder that produced the primary Outcome
PrimaryResponder == invocations[1]

MessageTypes(comms) == [k \in 1..Len(comms) |-> comms[k].message_type]

\* C1: a turn whose primary Outcome names a registered responder other than the
\* primary invokes exactly one more responder (two in total) and returns the
\* field-wise sum of the primary and the delegate usage.
C1_KnownDelegationSumsUsage ==
    (pc = "done" /\ DelegationTarget \in AgentIds
                 /\ DelegationTarget # PrimaryResponder) =>
        /\ invocations = << PrimaryResponder, DelegationTarget >>
        /\ returned.usage.input_tokens =
              primary_result.usage.input_tokens + delegated_result.usage.input_tokens
        /\ returned.usage.output_tokens =
              primary_result.usage.output_tokens + delegated_result.usage.output_tokens
        /\ returned.usage.total_tokens =
              primary_result.usage.total_tokens + delegated_result.usage.total_tokens

\* C1 witness: usage {10,20,30} merged with {5,5,10} gives {15,25,40}
C1_Witness ==
    /\ pc = "done"
    /\ DelegationTarget \in AgentIds
    /\ DelegationTarget # PrimaryResponder
    /\ Len(invocations) = 2
    /\ primary_result.usage = LlmUsage(10, 20)
    /\ delegated_result.usage = LlmUsage(5, 5)
    /\ returned.usage = [input_tokens |-> 15, output_tokens |-> 25, total_tokens |-> 40]

\* C2: when the primary Outcome names no delegation target, or one that is not a
\* registered responder id, no second responder is invoked and the usage returned
\* is the primary usage.
C2_NoDelegateWithoutKnownTarget ==
    (PrimaryReturned /\ DelegationTarget \notin AgentIds) =>
        /\ Len(invocations) = 1
        /\ delegated_result = Absent
        /\ pc = "done" => returned.usage = primary_result.usage

\* C2 witness: a finished turn whose primary named an unregistered target
C2_Witness ==
    /\ pc = "done"
    /\ DelegationTarget = "marketing_agent"
    /\ Len(invocations) = 1
    /\ returned.usage = LlmUsage(10, 20)

\* C3: an unregistered delegation target is a silent no-op: the turn emits and
\* stores no communication, and the returned Outcome is the one a primary without
\* a delegation target would have produced.
C3_UnknownTargetIsSilent ==
    (pc = "done" /\ Truthy(DelegationTarget) /\ DelegationTarget \notin AgentIds) =>
        /\ communications = << >>
        /\ session_comms = << >>
        /\ returned.communications = << >>
        /\ returned.response = primary_result.response
        /\ returned.usage = primary_result.usage
        /\ returned.needs_escalation = primary_result.needs_escalation

\* C4: a turn calls process() of at most two responders, the primary and at most
\* one delegate; a delegation target named by the delegate is not followed.
C4_AtMostOneHop ==
    /\ Len(invocations) <= 2
    /\ delegated_result # Absent => Len(invocations) = 2
    /\ pc = "done" =>
          Len(invocations) = (IF DelegationTarget \in AgentIds THEN 2 ELSE 1)

\* C4 witness: the Project Manager delegated to Business, whose own Outcome names
\* a further target, and the turn finished with two invocations
C4_Witness ==
    /\ pc = "done"
    /\ invocations = << "project_manager_agent", "business_agent" >>
    /\ Truthy(delegated_result.delegate_to)

\* C5: in a turn that delegates to a registered responder the delegation
\* communication (primary to target) is recorded before the delegate is invoked,
\* the response communication (target to primary) once the delegate has returned,
\* and an artifact-created communication, if any, last.
C5_CommunicationOrder ==
    (PrimaryReturned /\ DelegationTarget \in AgentIds) =>
        /\ Len(invocations) = 2 =>
              /\ Len(communications) >= 1
              /\ communications[1].message_type = "delegation"
              /\ communications[1].from_agent = agent_name
              /\ communications[1].to_agent = DelegationTarget
        /\ Len(communications) >= 2 <=> delegated_result # Absent
        /\ delegated_result # Absent =>
              /\ communications[2].message_type = "response"
              /\ communications[2].from_agent = DelegationTarget
              /\ communications[2].to_agent = agent_name
        /\ pc = "done" =>
              MessageTypes(communications) \in
                  { << "delegation", "response" >>,
                    << "delegation", "response", "artifact_created" >> }

\* C5 witness: a finished turn with all three communications
C5_Witness ==
    /\ pc = "done"
    /\ MessageTypes(communications) =
          << "delegation", "response", "artifact_created" >>

\* the order in which process_message moves through its blocks
PcSteps ==
    { << "idle", "routing" >>,
      << "routing", "primary_processing" >>,
      << "primary_processing", "delegating" >>,
      << "primary_processing", "primary_artifact_check" >>,
      << "delegating", "delegate_lookup" >>,
      << "delegate_lookup", "delegate_processing" >>,
      << "delegate_processing", "artifact_check" >>,
      << "artifact_check", "merge" >>,
      << "merge", "primary_artifact_check" >>,
      << "primary_artifact_check", "done" >>,
      << "done", "idle" >>,
      << "failed", "idle" >> }

\* the state of the turn's state machine a block belongs to
Phase(p) ==
    CASE p = "routing" -> "ROUTING"
      [] p = "primary_processing" -> "PRIMARY_PROCESSING"
      [] p \in {"delegating", "delegate_lookup"} -> "DELEGATING"
      [] p = "delegate_processing" -> "DELEGATE_PROCESSING"
      [] p = "artifact_check" -> "ARTIFACT_CHECK"
      [] p \in {"merge", "primary_artifact_check"} -> "MERGE"
      [] p = "done" -> "DONE"
      [] OTHER -> p

PhaseSteps ==
    { << "idle", "ROUTING" >>,
      << "ROUTING", "PRIMARY_PROCESSING" >>,
      << "PRIMARY_PROCESSING", "DELEGATING" >>,
      << "PRIMARY_PROCESSING", "MERGE" >>,
      << "DELEGATING", "DELEGATE_PROCESSING" >>,
      << "DELEGATE_PROCESSING", "ARTIFACT_CHECK" >>,
      << "ARTIFACT_CHECK", "MERGE" >>,
      << "MERGE", "DONE" >>,
      << "DONE", "idle" >>,
      << "failed", "idle" >> }

\* a step in which an artifact is detected and stored
StoresArtifact ==
    \/ Len(session_artifacts') > Len(session_artifacts)
    \/ Len(artifacts') > Len(artifacts)

\* a step that issues the delegate's process() call
IssuesDelegateCall == Len(invocations) = 1 /\ Len(invocations') = 2

C6_OriginalStep ==
    /\ pc' # "failed" =>
          Phase(pc') = Phase(pc) \/ << Phase(pc), Phase(pc') >> \in PhaseSteps
    /\ IssuesDelegateCall => PrimaryReturned /\ Truthy(DelegationTarget)
    /\ StoresArtifact => Phase(pc) = "ARTIFACT_CHECK"
    /\ pc' = "failed" => pc \in {"primary_processing", "delegate_processing"}
                         /\ error' = "llm"

\* C6 as stated: the turn moves through ROUTING, PRIMARY_PROCESSING, optionally
\* (DELEGATING, DELEGATE_PROCESSING, ARTIFACT_CHECK), MERGE, DONE in that order;
\* the delegate is called only once the primary's delegation decision is known;
\* artifacts are checked only in ARTIFACT_CHECK; and a turn fails only by an
\* exception of the text-generation call in PRIMARY_PROCESSING or
\* DELEGATE_PROCESSING.
C6_Original == [][pc' # pc => C6_OriginalStep]_vars

C6_AmendedStep ==
    /\ pc' # "failed" => << pc, pc' >> \in PcSteps
    /\ IssuesDelegateCall => /\ pc = "delegate_lookup"
                             /\ PrimaryReturned
                             /\ Truthy(DelegationTarget)
    /\ StoresArtifact => pc \in {"artifact_check", "primary_artifact_check"}
    /\ pc' = "done" => pc = "primary_artifact_check"
    /\ pc' = "failed" =>
          \/ pc \in {"primary_processing", "delegate_processing"} /\ error' = "llm"
          \/ /\ pc \in {"delegating", "delegate_processing", "artifact_check",
                        "primary_artifact_check"}
             /\ persist
             /\ error' = "persistence"

\* C6 as amended: the turn moves through ROUTING, PRIMARY_PROCESSING, optionally
\* (DELEGATING, DELEGATE_PROCESSING, ARTIFACT_CHECK, MERGE), then a second artifact
\* check on the primary's (merged) text that every turn performs, then DONE, in
\* that order and without repeating a block; the delegate is called only once the
\* primary's delegation decision is known; and a turn fails only by an exception
\* of the text-generation call in PRIMARY_PROCESSING or DELEGATE_PROCESSING or by
\* an exception of the store while a communication or an artifact is recorded.
C6_TurnPhases == [][pc' # pc => C6_AmendedStep]_vars

\* C6 witness: a finished delegating turn in which both artifact checks stored an
\* artifact, the delegate's before the merge and the primary's after it
C6_Witness ==
    /\ pc = "done"
    /\ Len(invocations) = 2
    /\ Len(session_artifacts) = 2
    /\ session_artifacts[1].created_by_agent = DelegationTarget
    /\ session_artifacts[2].created_by_agent = agent_name
    /\ session_artifacts[2].content = returned.response

Routed == agent_name # None

\* C7: whatever the previous responder and the user text, the Router's selection,
\* reported as the turn's current responder, is one of the five registered ids.
C7_RouterSelectsKnownId ==
    /\ Routed => agent_name \in AgentIds
    /\ pc = "done" => returned.current_agent \in AgentIds

ScenarioA ==
    /\ Routed
    /\ message = "What's our competitive landscape?"
    /\ current_agent = "Project Manager"

\* C8: in Scenario A (user text "What's our competitive landscape?", previous
\* responder "Project Manager") the Router selects discovery_agent.
C8_ScenarioASelectsDiscovery == ScenarioA => agent_name = "discovery_agent"

\* a trigger of the responder occurs in the lower-cased text
Matches(agent, text) == AnyIn(agent_keywords[agent], Lower(text))

\* the Router has just made its selection
JustRouted == pc = "primary_processing"

\* C9: when triggers of several responders occur in the text, the responder that
\* comes first in the order Project Manager, Business, Discovery, Delivery,
\* Tech Lead is selected, whatever the previous responder; a trigger also matches
\* inside a longer word.
C9_FirstInOrderWins ==
    JustRouted =>
        LET hits == {i \in 1..Len(AgentOrder) : Matches(AgentOrder[i], message)}
        IN /\ \A i \in hits :
                 (\A j \in hits : i <= j) => agent_name = AgentOrder[i]
           /\ message = "User stories and architecture" =>
                 /\ Cardinality(hits) > 1
                 /\ agent_name = "delivery_agent"
           /\ message = "Ask the CPO to validate the stack" =>
                 /\ Cardinality(hits) > 1
                 /\ agent_name = "business_agent"
           /\ message = "Technical research" =>
                 /\ Cardinality(hits) > 1
                 /\ agent_name = "discovery_agent"
           /\ message = "Plan the development" =>
                 agent_name = "project_manager_agent"

\* C9 witness: triggers of Business, Discovery and Tech Lead occur, the previous
\* responder is the Tech Lead, and Business is selected
C9_Witness ==
    /\ JustRouted
    /\ message = "Ask the CPO to validate the stack"
    /\ current_agent = "tech_lead_agent"
    /\ Matches("discovery_agent", message)
    /\ Matches("tech_lead_agent", message)
    /\ agent_name = "business_agent"

NoTrigger(text) == \A a \in AgentIds : ~Matches(a, text)

\* C10: without a trigger in the text the turn is handled by the previous
\* responder when one is known and by the Project Manager when none is known,
\* the first turn of a newly created conversation included.
C10_DefaultWithoutTrigger ==
    (JustRouted /\ NoTrigger(message)) =>
        IF new_conversation \/ ~Truthy(current_agent)
        THEN PrimaryResponder = "project_manager_agent"
        ELSE agent_name = current_agent /\ PrimaryResponder = current_agent

\* total_tokens = input_tokens + output_tokens, for a Usage that is there
UsageAddsUp(usage) ==
    UsagePresent(usage) => usage.total_tokens = usage.input_tokens + usage.output_tokens

OutcomeUsageAddsUp(outcome) == outcome # Absent => UsageAddsUp(outcome.usage)

\* C11: every Usage of a turn, the primary's, the delegate's, the merged one and
\* the one returned to the caller, has total_tokens = input_tokens + output_tokens.
C11_UsageTotalIsSum ==
    /\ OutcomeUsageAddsUp(primary_result)
    /\ OutcomeUsageAddsUp(delegated_result)
    /\ OutcomeUsageAddsUp(result)
    /\ OutcomeUsageAddsUp(returned)

\* C11 witness: a finished delegating turn whose returned Usage is a merged one,
\* different from the primary's and from the delegate's
C11_Witness ==
    /\ pc = "done"
    /\ delegated_result # Absent
    /\ returned.usage # primary_result.usage
    /\ returned.usage # delegated_result.usage
    /\ returned.usage.total_tokens =
          returned.usage.input_tokens + returned.usage.output_tokens
    /\ returned.usage.total_tokens > 0

\* the delegate has returned and the two Outcomes have been merged
Merged == pc \in {"primary_artifact_check", "done"} /\ delegated_result # Absent

\* the usage of the merged Outcome
MergedUsage == IF pc = "done" THEN returned.usage ELSE result.usage

\* C12: after a delegation the merged usage is the field-wise sum when the primary
\* and the delegate usage are both present, and otherwise whichever of the two is
\* present: the delegate usage when only that one is present.
C12_MergedUsageIsSumOrPresentOne ==
    Merged =>
        LET primary == primary_result.usage
            delegated == delegated_result.usage
        IN IF UsagePresent(primary) /\ UsagePresent(delegated)
           THEN /\ MergedUsage.input_tokens =
                      primary.input_tokens + delegated.input_tokens
                /\ MergedUsage.output_tokens =
                      primary.output_tokens + delegated.output_tokens
                /\ MergedUsage.total_tokens =
                      primary.total_tokens + delegated.total_tokens
           ELSE IF UsagePresent(primary) THEN MergedUsage = primary
           ELSE MergedUsage = delegated

\* a text-generation call of the turn has failed
LlmFailed == pc = "failed" /\ error = "llm"

C13_Step ==
    /\ (pc' = "failed" /\ error' = "llm") =>
          /\ pc \in {"primary_processing", "delegate_processing"}
          /\ returned' = Absent
          /\ invocations' = invocations
          /\ artifacts' = << >>
          /\ session_artifacts' = << >>
          /\ IF pc = "primary_processing"
             THEN /\ Len(invocations') = 1
                  /\ communications' = << >>
                  /\ session_comms' = << >>
             ELSE /\ Len(invocations') = 2
                  /\ delegated_result' = Absent
                  /\ MessageTypes(communications') = << "delegation" >>
                  /\ communications'[1].to_agent = invocations'[2]
                  /\ session_comms' = IF persist THEN communications' ELSE << >>
    /\ LlmFailed =>
          /\ pc' = "idle"
          /\ Len(invocations') <= Len(invocations)

\* C13: when a text-generation call fails, in the primary or in the delegate hop,
\* the error reaches the caller of process_message and nothing is returned, the
\* failed responder is not invoked again and no other responder is invoked, and no
\* response communication, artifact communication or artifact is recorded for the
\* failed hop, while the delegation communication recorded before a failed
\* delegate call is still in the turn's list and in the store's session.
C13_LlmFailurePropagates == [][C13_Step]_vars

\* C13 witness: the delegate's call failed in a persisting turn; the delegation
\* communication is the only record
C13_Witness ==
    /\ LlmFailed
    /\ persist
    /\ Len(invocations) = 2
    /\ MessageTypes(session_comms) = << "delegation" >>
    /\ session_comms = communications
    /\ session_artifacts = << >>

\* the orchestrator has raised inside a chat request
ChatTurnFailed == pc = "failed" /\ caller = "chat"

\* what a chat request may commit
Committed == << conv_agent, tokens_used, assistant_messages, token_usage >>

\* C14: when the orchestrator raises during a chat request, the request ends
\* with an error (HTTP 500) and leaves no assistant message, no TokenUsage row, the
\* user's tokens_used and the conversation's active responder as they were, also
\* when the primary call had succeeded and used tokens before the delegate failed.
C14_FailedChatTurnCommitsNothing ==
    [][ /\ ChatTurnFailed => /\ response_status' = "500"
                             /\ pc' = "idle"
                             /\ Committed' = Committed
        /\ (caller = "chat" /\ pc' = "failed") => Committed' = Committed ]_vars

\* C14 witness: in a chat request of a user who has used tokens before, the
\* primary returned with its usage and the delegate's call failed
C14_Witness ==
    /\ ChatTurnFailed
    /\ error = "llm"
    /\ Len(invocations) = 2
    /\ primary_result # Absent
    /\ primary_result.usage.total_tokens > 0
    /\ tokens_used > 0
    /\ conv_agent # None

\* the Turn Context of the turn: what the caller passed in
OriginalContext == TurnContext(message, conversation_history, project_name)

\* C15: the delegate is invoked with the same Turn Context as the primary, the
\* user text, the history and the project context the caller passed in; nothing
\* of the primary's Outcome is in it and it does not change between the two calls.
C15_DelegateGetsSameContext ==
    /\ Len(contexts) = Len(invocations)
    /\ \A k \in 1..Len(contexts) : contexts[k] = OriginalContext
    /\ Len(contexts) = 2 =>
          /\ contexts[2] = contexts[1]
          /\ contexts[2].user_message # primary_result.response

\* C15 witness: a delegate was called in a turn that came with earlier messages
\* and a project name, after the primary had produced a text
C15_Witness ==
    /\ Len(contexts) = 2
    /\ pc = "done"
    /\ conversation_history = EarlierMessages
    /\ project_name = "Acme"
    /\ primary_result.response # ""
    /\ contexts[2] = OriginalContext

\* the prompt the configuration operations have made active for a responder
ConfiguredPrompt(agent) == ActivePrompt(agent, api_custom_prompt[agent])

\* a step in which a responder submits its prompt to the text-generation service
SubmitsPrompt == Len(prompts') = Len(prompts) + 1

\* C16: once update_agent_prompt has set an override for a responder, every later
\* chat turn processed by that responder submits the override as its prompt, and
\* once the override is cleared or reset every later turn submits the built-in
\* prompt.
C16_TurnsSubmitConfiguredPrompt ==
    [][ SubmitsPrompt =>
           prompts'[Len(prompts')] = ConfiguredPrompt(invocations'[Len(invocations')])
      ]_vars

\* the text the responder generated in this turn, by its position among the calls
GeneratedText(k) ==
    IF k = 1 THEN primary_result.response ELSE delegated_result.response

\* the stored Artifact holds, verbatim, the text its creator generated
VerbatimOfCreator(row) ==
    \E k \in 1..Len(invocations) :
        /\ row.created_by_agent = invocations[k]
        /\ IF k = 1 THEN PrimaryReturned ELSE delegated_result # Absent
        /\ row.content = GeneratedText(k)

\* C17: each responder invocation creates at most one Artifact in a turn, and
\* the content of every stored Artifact is exactly the text generated by the
\* responder recorded as its creator, with and without delegation.
C17_ArtifactIsCreatorsText ==
    /\ Len(session_artifacts) <= Len(invocations)
    /\ \A j, k \in 1..Len(session_artifacts) :
          j # k => session_artifacts[j].created_by_agent #
                   session_artifacts[k].created_by_agent
    /\ \A k \in 1..Len(session_artifacts) : VerbatimOfCreator(session_artifacts[k])

\* one of the responder's markers occurs in the text
DetectionTriggers(text, agent) ==
    /\ agent \in ArtifactAgents
    /\ \E k \in 1..Len(ArtifactMarkers[agent]) : Contains(text, ArtifactMarkers[agent][k])

\* the step that checks the delegate's text for an artifact
DelegateArtifactStep == pc = "artifact_check" /\ pc' = "merge"

\* the step stored the delegate's artifact and emitted its communication
DelegateArtifactRecorded ==
    /\ Len(session_artifacts') = Len(session_artifacts) + 1
    /\ LET row == session_artifacts'[Len(session_artifacts')]
           comm == communications'[Len(communications')]
       IN /\ row.created_by_agent = invocations[2]
          /\ row.content = delegated_result.response
          /\ Len(communications') = Len(communications) + 1
          /\ communications[Len(communications)].message_type = "response"
          /\ comm.message_type = "artifact_created"
          /\ comm.from_agent = invocations[2]
          /\ comm.artifact_id = row.id
          /\ session_comms' = Append(session_comms, comm)
          /\ artifacts'[Len(artifacts')].id = row.id

DelegateArtifactSkipped ==
    UNCHANGED << session_artifacts, artifacts, communications, session_comms >>

\* C18 as stated: whenever the delegate's text triggers Artifact Detection the
\* artifact is persisted and an artifact-created communication with the stored
\* artifact's id is emitted after the response communication; when it does not
\* trigger, nothing is persisted or emitted.
C18_Original ==
    [][ DelegateArtifactStep =>
           IF DetectionTriggers(delegated_result.response, invocations[2])
           THEN DelegateArtifactRecorded
           ELSE DelegateArtifactSkipped ]_vars

\* C18 as amended: in a turn that runs with persistence (db and project_id given),
\* whenever the delegate's text triggers Artifact Detection the artifact is
\* persisted and an artifact-created communication with the stored artifact's id
\* is emitted after the response communication; when detection does not trigger,
\* or the turn runs without persistence, nothing is persisted or emitted.
C18_DelegateArtifactRecordedWhenPersisting ==
    [][ DelegateArtifactStep =>
           IF persist /\ DetectionTriggers(delegated_result.response, invocations[2])
           THEN DelegateArtifactRecorded
           ELSE DelegateArtifactSkipped ]_vars

\* C18 witness: the delegate's artifact and its communication have just been
\* recorded, the communication carrying the id of the stored row
C18_Witness ==
    /\ pc = "merge"
    /\ persist
    /\ Len(session_artifacts) = 1
    /\ MessageTypes(communications) = << "delegation", "response", "artifact_created" >>
    /\ communications[3].artifact_id = session_artifacts[1].id
    /\ session_artifacts[1].content = delegated_result.response

\* a persisting turn has just run Artifact Detection on the text of the responder
\* at position k of its calls: the delegate's check, or the check of a primary
\* that did not delegate
DetectionRan(k) ==
    /\ persist
    /\ IF k = 2 THEN pc = "merge"
       ELSE pc = "done" /\ Len(invocations) = 1

\* the Artifact rows of the turn created by the responder
ArtifactsOf(agent) ==
    {j \in 1..Len(session_artifacts) : session_artifacts[j].created_by_agent = agent}

\* the id Artifact Detection was given for the call at position k
DetectionId(k) == IF k = 2 THEN invocations[2] ELSE agent_name

\* C19: Artifact Detection returns an artifact iff the responder id has a marker
\* mapping and one of its markers occurs, case-sensitively, in the text; its type
\* is the one mapped to the responder (market_analysis for discovery_agent) and
\* belongs to ARTIFACT_TYPES; a responder without a mapping, the Project Manager,
\* never yields an artifact.
C19_DetectionIffMarker ==
    \A k \in 1..2 :
        DetectionRan(k) =>
            LET agent == DetectionId(k)
                text == GeneratedText(k)
                found == ArtifactsOf(agent)
            IN /\ (found # {}) <=> DetectionTriggers(text, agent)
               /\ agent \notin ArtifactAgents => found = {}
               /\ \A j \in found :
                     /\ session_artifacts[j].artifact_type = ArtifactType[agent]
                     /\ session_artifacts[j].artifact_type \in ArtifactTypes
                     /\ session_artifacts[j].content = text
                     /\ agent = "discovery_agent" =>
                           session_artifacts[j].artifact_type = "market_analysis"

\* C19 witness: Discovery's text "GO/NO-GO: GO. TAM: 5M" gave a market_analysis
\* artifact
C19_Witness ==
    /\ DetectionRan(2)
    /\ invocations[2] = "discovery_agent"
    /\ delegated_result.response = "GO/NO-GO: GO. TAM: 5M"
    /\ Len(session_artifacts) = 1
    /\ session_artifacts[1].artifact_type = "market_analysis"

\* two recorded calls agree on whether an artifact was returned and on its type
SamePresenceAndType(c, d) ==
    /\ (c.outcome = Absent) <=> (d.outcome = Absent)
    /\ c.outcome # Absent => c.outcome.type = d.outcome.type

SameTitle(c, d) == c.outcome # Absent => c.outcome.title = d.outcome.title

ResponseRecorded == delegated_result # Absent /\ Len(communications) >= 2

ResponseContent == communications[2].content

DelegateText == delegated_result.response

PrimaryJustReturned ==
    /\ primary_result # Absent
    /\ result = primary_result
    /\ pc \in {"delegating", "primary_artifact_check"}

\* the candidate order and markers of the responder that scans for a target
CandidateOrder(agent) ==
    IF agent = "project_manager_agent" THEN PMDelegationOrder
    ELSE BusinessDelegationOrder

CandidateMarkers(agent) ==
    IF agent = "project_manager_agent" THEN PMDelegationMarkers
    ELSE BusinessDelegationMarkers

\* the positions in the candidate order one of whose markers occurs in the text,
\* letter case ignored
CandidateHits(agent, text) ==
    LET folded == Lower(text)
    IN { i \in 1..Len(CandidateOrder(agent)) :
           \E k \in 1..Len(CandidateMarkers(agent)[CandidateOrder(agent)[i]]) :
              Contains(folded, Lower(CandidateMarkers(agent)[CandidateOrder(agent)[i]][k])) }

\* C22: in the Project-Manager and Business responders the delegation target is
\* the first candidate, in the fixed candidate order, one of whose markers
\* occurs in the generated text whatever its letter case; when no marker occurs
\* the target is none, no other responder is invoked and the turn returns the
\* Router's responder as the current one.
C22_DelegationTargetIsFirstMatch ==
    /\ PrimaryJustReturned /\ PrimaryResponder \in DelegatingAgents =>
          LET hits == CandidateHits(PrimaryResponder, primary_result.response)
          IN /\ hits = {} => primary_result.delegate_to = None
             /\ hits # {} =>
                   primary_result.delegate_to
                      = CandidateOrder(PrimaryResponder)[
                            CHOOSE i \in hits : \A j \in hits : i <= j]
             /\ Contains(primary_result.response, "DELEGATE TO DISCOVERY") =>
                   primary_result.delegate_to = "discovery_agent"
    /\ pc = "done" /\ PrimaryResponder \in DelegatingAgents
          /\ primary_result.delegate_to = None =>
             /\ invocations = << PrimaryResponder >>
             /\ communications = << >>
             /\ returned.current_agent = agent_name

\* a text naming tech lead before discovery made each of the two responders
\* delegate to discovery, in a letter case other than the markers'
C22_Witness ==
    /\ PrimaryJustReturned
    /\ primary_result.response = "Delegate to Tech Lead, then delegate to Discovery"
    /\ PrimaryResponder = "business_agent"
    /\ primary_result.delegate_to = "discovery_agent"

\* the turn has returned its merged Outcome
TurnReturned == pc = "done" /\ returned # Absent

\* the responders a turn invokes, from the turn inputs and the primary's Outcome alone
ExpectedInvocations ==
    LET primary == ResolveAgent(RouteAgent(message, current_agent))
    IN IF Truthy(primary_result.delegate_to) /\ primary_result.delegate_to \in AgentIds
       THEN << primary, primary_result.delegate_to >>
       ELSE << primary >>

\* the merged text and usage, from the responders' Outcomes alone
ExpectedText ==
    IF delegated_result = Absent THEN primary_result.response
    ELSE primary_result.response \o "{#10}{#10}---{#10}{#10}**"
            \o agent_names[primary_result.delegate_to] \o ":**{#10}{#10}"
            \o delegated_result.response

ExpectedUsage ==
    IF delegated_result = Absent THEN primary_result.usage
    ELSE [ input_tokens  |-> primary_result.usage.input_tokens
                                + delegated_result.usage.input_tokens,
           output_tokens |-> primary_result.usage.output_tokens
                                + delegated_result.usage.output_tokens,
           total_tokens  |-> primary_result.usage.total_tokens
                                + delegated_result.usage.total_tokens ]

\* C23: the merged Outcome a turn returns is determined by the turn inputs and
\* the responders' outputs, with no regard to persistence: the responders
\* invoked, and the returned text, usage, escalation flag and delegation
\* target, are the same function of them whether or not a db session and
\* project id were supplied.
C23_OutcomeIgnoresPersistence ==
    TurnReturned =>
        /\ invocations = ExpectedInvocations
        /\ (delegated_result # Absent) = (Len(ExpectedInvocations) = 2)
        /\ returned.response = ExpectedText
        /\ returned.usage = ExpectedUsage
        /\ returned.needs_escalation = primary_result.needs_escalation
        /\ returned.delegate_to = primary_result.delegate_to

\* a delegating turn without persistence has returned its merged Outcome and
\* left no communication or artifact row behind
C23_Witness ==
    /\ TurnReturned
    /\ ~persist
    /\ delegated_result # Absent
    /\ session_comms = << >>
    /\ session_artifacts = << >>
    /\ returned.response = ExpectedText
    /\ ExtractArtifact(delegated_result.response, invocations[2], project_name) # Absent

\* the same with persistence: the rows are there and the Outcome is as before
C23_WitnessPersisting ==
    /\ TurnReturned
    /\ persist
    /\ delegated_result # Absent
    /\ Len(session_comms) = 3
    /\ Len(session_artifacts) >= 1
    /\ returned.response = ExpectedText

\* the user is at or above the token limit
AtLimit == tokens_used >= UserTokenLimit

\* a request arrives: the endpoint is entered
RequestArrives == pc = "idle" /\ (pc' # "idle" \/ response_status' # response_status)

\* the step of an admitted turn, inside or right after process_message
TurnRuns == pc # "idle" /\ caller = "chat"

C24_Step ==
    /\ RequestArrives /\ AtLimit =>
          /\ response_status' = "403"
          /\ pc' = "idle"
          /\ invocations' = << >>
          /\ Committed' = Committed
    /\ RequestArrives /\ ~AtLimit => pc' = "routing"
    /\ TurnRuns =>
          /\ response_status' # "403"
          /\ pc' = "failed" => error' \in {"llm", "persistence"}
          /\ pc = "done" => response_status' = "200"

\* C24: a chat request of a user whose tokens_used is at or above the token
\* limit is answered 403 before any responder is invoked and changes no
\* message, usage record or counter; a request below the limit is admitted,
\* and an admitted turn is never rejected because of usage: it fails only on a
\* generation or persistence error, and once process_message has returned it
\* is committed even if that takes the user over the limit.
C24_LimitOnlyBeforeTheCore == [][C24_Step]_vars

\* a request was rejected at the limit, after an admitted turn took the user
\* over it
C24_Witness ==
    /\ response_status = "403"
    /\ tokens_used > UserTokenLimit
    /\ pc = "idle"
    /\ Len(token_usage) >= 2

\* call id reads the active prompt in this step
ReadsPrompt(id) == prompt_calls[id].pc = "idle" /\ prompt_calls'[id].pc = "generating"

\* call id, a configuration handler, runs its assignment in this step
AssignsOverride(id) ==
    /\ prompt_calls'[id].pc = "idle"
    /\ \/ prompt_calls[id].pc = "assign"
       \/ prompt_calls[id].pc = "select" /\ prompt_calls[id].op = "reset"

\* the configuration handlers on the responder that have not assigned yet
ChangesInFlight(agent) ==
    { j \in PromptCallIds :
        /\ prompt_calls[j].op \in {"update", "reset"}
        /\ prompt_calls[j].agent_type = agent }

\* a responder's complete prompts: the built-in one and the non-empty custom ones
CompletePrompts(agent) ==
    {DefaultPrompt(agent)} \cup { c \in CustomPrompts : Truthy(c) }

C25_Step ==
    /\ \A id \in PromptCallIds :
          ReadsPrompt(id) =>
             LET agent == prompt_calls'[id].agent_type
                 submitted == prompt_calls'[id].prompt
                 old == ActivePrompt(agent, api_custom_prompt[agent])
                 new == { ActivePrompt(agent, PendingOverride(prompt_calls[j])) :
                            j \in ChangesInFlight(agent) }
             IN /\ submitted \in {old} \cup new
                /\ submitted \in CompletePrompts(agent)
                /\ Truthy(submitted)
    /\ \A id \in PromptCallIds :
          AssignsOverride(id) =>
             api_custom_prompt'[prompt_calls[id].agent_type]
                = PendingOverride(prompt_calls[id])
    /\ (\A id \in PromptCallIds : ~AssignsOverride(id)) =>
          api_custom_prompt' = api_custom_prompt

ChatTurnCommits == pc = "done" /\ caller = "chat" /\ pc' = "idle"

C26_Step ==
    /\ ChatTurnCommits =>
          /\ response_status' = "200"
          /\ conv_agent' = agent_name
          /\ agent_name = RouteAgent(message, current_agent)
          /\ ~new_conversation => current_agent = conv_agent
          /\ new_conversation => current_agent = NewConversationAgent
          /\ conv_agent' # current_agent => \E a \in AgentIds : Matches(a, message)
    /\ ~ChatTurnCommits => conv_agent' = conv_agent

AllCallsCompleted == \A id \in PromptCallIds : prompt_calls[id].pc = "idle"

\* the persisted configuration asks for a custom prompt and holds one
PersistedCustom(agent) ==
    /\ agent_config[agent] # Absent
    /\ agent_config[agent].use_custom_prompt
    /\ Truthy(agent_config[agent].custom_system_prompt)

\* C27: once all update_agent_prompt and reset_agent_prompt calls have
\* completed, a responder's in-memory override is set if and only if the
\* persisted use_custom_prompt is true and the persisted custom prompt is
\* non-empty, and then equals the persisted custom prompt.
C27_OverrideAgreesWithConfig ==
    AllCallsCompleted =>
        \A a \in AgentIds :
            /\ Truthy(api_custom_prompt[a]) <=> PersistedCustom(a)
            /\ PersistedCustom(a) =>
                  api_custom_prompt[a] = agent_config[a].custom_system_prompt

\* the sum of total_tokens over TokenUsage rows
RECURSIVE SumTotals(_)
SumTotals(rows) ==
    IF rows = << >> THEN 0
    ELSE rows[1].total_tokens + SumTotals(Tail(rows))

\* no send_message request is running
AllChatCallsCompleted == \A id \in ChatCallIds : chat_calls[id].pc = "idle"

\* C28: after any interleaving of concurrent successful chat turns of one user,
\* with no admin reset in between, the user's tokens_used has grown by exactly
\* the sum of total_tokens of the TokenUsage records those turns wrote.
C28_TokensUsedIsSumOfRecords ==
    AllChatCallsCompleted => tokens_used = SumTotals(token_usage)

\* C29: the escalation flag of the merged Outcome a turn returns is the primary
\* responder's flag; the delegate's flag never changes it, so an escalation
\* that only the delegate raised is not reported to the caller.
C29_EscalationIsPrimarys ==
    /\ TurnReturned => returned.needs_escalation = primary_result.needs_escalation
    /\ pc = "primary_artifact_check" =>
          result.needs_escalation = primary_result.needs_escalation

\* the Project Manager delegated to Business without escalating, Business
\* raised an escalation, and the turn returned without one
C29_Witness ==
    /\ TurnReturned
    /\ PrimaryResponder = "project_manager_agent"
    /\ delegated_result # Absent
    /\ invocations[2] = "business_agent"
    /\ delegated_result.needs_escalation
    /\ ~primary_result.needs_escalation
    /\ ~returned.needs_escalation

\* a later version of the row has been created
Superseded(row) ==
    \E k \in 1..Len(artifact_rows) : artifact_rows[k].parent_id = row.id

\* C30: after any sequence of create_artifact and update_artifact calls with
\* create_version=true, the project artifact listing holds exactly the rows
\* that no later version has superseded: the newest version of every chain,
\* and none of the versions it superseded.
C30_ListingIsLatestVersions ==
    \A k \in 1..Len(artifact_rows) :
        artifact_rows[k] \in GetProjectArtifacts(artifact_rows)
            <=> ~Superseded(artifact_rows[k])

====
